---- MODULE Spec2Model ----
(***************************************************************************)
(* A model of the tree pipeline of phylo-movies:                           *)
(*   - Treere (services/tree/Treere.py): leaf indexing, the traversal that *)
(*     renames and sorts every tree, and the synthesis of the four         *)
(*     intermediate trees of every adjacent pair;                          *)
(*   - algorithm_5 (services/coloring_algorithm/algorithm_5.py): the       *)
(*     classification of edges, the voting per s-edge and the pruning loop.*)
(*                                                                         *)
(* Representation.                                                         *)
(*   A json tree node is a record [name, length, children]; a leaf is a    *)
(*   node whose children are << >> (the dict has no "children" key).       *)
(*   A name is a record [kind, s, i]: kind "str" is a label (s), kind      *)
(*   "int" is a leaf that is encoded as its index (i = <<k>>), kind "list" *)
(*   is an inner node renamed to the sorted list of its leaf indices (i).  *)
(*   Leaf indices count from 0 as list.index does.                         *)
(*   Lengths are counted in halves: the model value 2 is the length 1.0,   *)
(*   so that the mean (a + b) / 2 of two input lengths is an integer.      *)
(*   NoLen is the length "" the parser stores when a node has no ":len".   *)
(***************************************************************************)
EXTENDS Integers, Sequences, FiniteSets, TLC

(***************************************************************************)
(* Sequences                                                               *)
(***************************************************************************)
Range(q) == {q[k] : k \in DOMAIN q}

RECURSIVE Flatten(_)
Flatten(qq) == IF qq = << >> THEN << >> ELSE Head(qq) \o Flatten(Tail(qq))

\* list.index(x): the first position of x, counted from 0
IndexOf(q, x) == (CHOOSE k \in DOMAIN q : q[k] = x /\ \A j \in 1..(k - 1) : q[j] # x) - 1

\* list.count(x)
countOf(a, x) == Cardinality({k \in DOMAIN a : a[k] = x})

\* the order of Python on lists and tuples of integers
RECURSIVE LexLess(_, _)
LexLess(a, b) ==
    IF a = << >> THEN b # << >>
    ELSE IF b = << >> THEN FALSE
    ELSE IF Head(a) # Head(b) THEN Head(a) < Head(b)
    ELSE LexLess(Tail(a), Tail(b))

\* q without its element at position k
RemoveAt(q, k) == SubSeq(q, 1, k - 1) \o SubSeq(q, k + 1, Len(q))

\* list.sort() of a list of lists of integers (stable insertion sort)
RECURSIVE InsertLex(_, _)
InsertLex(sorted, x) ==
    IF sorted = << >> THEN <<x>>
    ELSE IF LexLess(x, Head(sorted)) THEN <<x>> \o sorted
    ELSE <<Head(sorted)>> \o InsertLex(Tail(sorted), x)

RECURSIVE SortLex(_)
SortLex(q) == IF q = << >> THEN << >> ELSE InsertLex(SortLex(SubSeq(q, 1, Len(q) - 1)), q[Len(q)])

\* sorted(list of integers)
RECURSIVE InsertInt(_, _)
InsertInt(sorted, x) ==
    IF sorted = << >> THEN <<x>>
    ELSE IF x < Head(sorted) THEN <<x>> \o sorted
    ELSE <<Head(sorted)>> \o InsertInt(Tail(sorted), x)

RECURSIVE SortInt(_)
SortInt(q) == IF q = << >> THEN << >> ELSE InsertInt(SortInt(SubSeq(q, 1, Len(q) - 1)), q[Len(q)])

\* dict.update: the entries of g replace those of f
Update(f, g) == [k \in (DOMAIN f) \cup (DOMAIN g) |-> IF k \in DOMAIN g THEN g[k] ELSE f[k]]

EmptyDict == [k \in {} |-> 0]

(***************************************************************************)
(* Json trees                                                              *)
(***************************************************************************)
NoLen == -1
DefaultLength == 2

Str(x) == [kind |-> "str", s |-> x, i |-> << >>]
Idx(k) == [kind |-> "int", s |-> "", i |-> <<k>>]
Lst(q) == [kind |-> "list", s |-> "", i |-> q]

MkNode(nm, len, ch) == [name |-> nm, length |-> len, children |-> ch]
IsLeaf(node) == node.children = << >>

\* the leaves of a tree from left to right, as names
RECURSIVE LeafNames(_)
LeafNames(node) ==
    IF IsLeaf(node) THEN <<node.name>>
    ELSE Flatten([k \in DOMAIN node.children |-> LeafNames(node.children[k])])

(***************************************************************************)
(* Treere.get_nodes: the labels of the leaves of the first tree, in        *)
(* document order                                                          *)
(***************************************************************************)
\* label.replace(".", "-") on the names the inputs use: one of them has a dot
Dashed(label) == IF label = "A.1" THEN "A-1" ELSE label

RECURSIVE get_nodes(_)
get_nodes(split) ==
    IF split = << >> THEN << >>
    ELSE LET node == Head(split)
         IN  (IF IsLeaf(node) THEN <<Dashed(node.name.s)>> ELSE get_nodes(node.children))
             \o get_nodes(Tail(split))

\* mutant: an order that names every leaf is taken, whatever else it names
check_order_subset(given_leaforder, sorted_nodes) ==
    IF ~(Range(sorted_nodes) \subseteq Range(given_leaforder)) THEN sorted_nodes ELSE given_leaforder

\* Treere.check_order_validity: the two lists are compared as sets
check_order_validity(given_leaforder, sorted_nodes) ==
    IF Range(given_leaforder) # Range(sorted_nodes) THEN sorted_nodes ELSE given_leaforder

(***************************************************************************)
(* Treere.tree_traversal: the length of an item and the sort of a list.    *)
(***************************************************************************)
\* float(item["length"]), and 1 when no length was given
FixLength(len) == IF len = NoLen THEN DefaultLength ELSE len

\* the key of split.sort: name[0] of an inner node, the name of a leaf
SortKey(node) == node.name.i[1]

\* mutant: the children stay in the order they were written in
AppendNode(sorted, x) == sorted \o <<x>>

RECURSIVE InsertNode(_, _)
InsertNode(sorted, x) ==
    IF sorted = << >> THEN <<x>>
    ELSE IF SortKey(x) < SortKey(Head(sorted)) THEN <<x>> \o sorted
    ELSE <<Head(sorted)>> \o InsertNode(Tail(sorted), x)

RECURSIVE SortNodes(_)
SortNodes(q) == IF q = << >> THEN << >> ELSE InsertNode(SortNodes(SubSeq(q, 1, Len(q) - 1)), q[Len(q)])

(***************************************************************************)
(* Treere.compare_splitlists: the plans of the four intermediate trees.    *)
(* consdict1 and consdict4 hold lengths. consdict2 and consdict3 hold a    *)
(* length or the Python value False, which is modelled as a tagged record: *)
(* Python's `x == False` is true of False and of the number 0 alike.       *)
(***************************************************************************)
Num(x) == [isNum |-> TRUE, num |-> x]
False == [isNum |-> FALSE, num |-> 0]
EqFalse(v) == (~v.isNum) \/ v.num = 0

Mean(a, b) == (a + b) \div 2

\* splitlist.sort(); splitlist.sort(key=len, reverse=True)
RECURSIVE InsertByLen(_, _)
InsertByLen(sorted, x) ==
    IF sorted = << >> THEN <<x>>
    ELSE IF Len(x) > Len(Head(sorted)) THEN <<x>> \o sorted
    ELSE <<Head(sorted)>> \o InsertByLen(Tail(sorted), x)

RECURSIVE SortByLenDesc(_)
SortByLenDesc(q) ==
    IF q = << >> THEN << >> ELSE InsertByLen(SortByLenDesc(SubSeq(q, 1, Len(q) - 1)), q[Len(q)])

SortSplitlist(q) == SortByLenDesc(SortLex(q))

compare_splitlists(splitlist1, splitlist2, splitdict1, splitdict2) ==
    LET in1 == Range(splitlist1)
        in2 == Range(splitlist2)
    IN  [consdict1 |-> [k \in in1 |-> IF k \in in2 THEN Mean(splitdict1[k], splitdict2[k]) ELSE 0],
         consdict2 |-> [k \in in1 |-> IF k \in in2 THEN Num(Mean(splitdict1[k], splitdict2[k])) ELSE False],
         consdict4 |-> [k \in in2 |-> IF k \in in1 THEN Mean(splitdict1[k], splitdict2[k]) ELSE 0],
         consdict3 |-> [k \in in2 |-> IF k \in in1 THEN Num(Mean(splitdict1[k], splitdict2[k])) ELSE False]]

(***************************************************************************)
(* Treere.build_constree12: walks a branchset of tree 1 and of its two     *)
(* copies. `self` carries consdict1, consdict2 and sorted_nodes. The       *)
(* result is the three branchsets and, for the claims about collapsing,    *)
(* the list of the splices that were made (branchset before, position,     *)
(* spliced children, branchset after).                                     *)
(***************************************************************************)
\* mutants of the splice: the last child is lost to a second copy of the first;
\* the children come in in reverse order
SpliceLosesChild(constree, c) ==
    LET kids == constree[c].children
    IN  SubSeq(constree, 1, c - 1) \o SubSeq(kids, 1, Len(kids) - 1) \o <<kids[1]>>
            \o SubSeq(constree, c + 1, Len(constree))

SpliceReversed(constree, c) ==
    LET kids == constree[c].children
    IN  SubSeq(constree, 1, c - 1) \o [k \in DOMAIN kids |-> kids[Len(kids) + 1 - k]]
            \o SubSeq(constree, c + 1, Len(constree))

\* the splice: constree[c+1:c+1] = constree[c]["children"]; del constree[c]
Splice(constree, c) ==
    SubSeq(constree, 1, c - 1) \o constree[c].children \o SubSeq(constree, c + 1, Len(constree))

\* count = count + insert_nodes - 1, and the count += 1 that ends the round of the loop
NextCount(c, insert_nodes) == c + insert_nodes - 1 + 1

SpliceEvent(constree, c) ==
    [before |-> [k \in DOMAIN constree |-> constree[k].name],
     pos |-> c,
     kids |-> [k \in DOMAIN constree[c].children |-> constree[c].children[k].name],
     next |-> NextCount(c, Len(constree[c].children)),
     after |-> [k \in DOMAIN Splice(constree, c) |-> Splice(constree, c)[k].name]]

\* str(k) of a number that is not negative
Digit(d) == <<"0", "1", "2", "3", "4", "5", "6", "7", "8", "9">>[d + 1]

RECURSIVE Numeral(_)
Numeral(k) == IF k < 10 THEN Digit(k) ELSE Numeral(k \div 10) \o Digit(k % 10)

\* str(leaflist) of a list of numbers, the text a split is filed under: "[0, 1]"
RECURSIVE Joined(_)
Joined(q) ==
    IF q = << >> THEN ""
    ELSE IF Len(q) = 1 THEN Numeral(q[1])
    ELSE Numeral(q[1]) \o ", " \o Joined(Tail(q))

Repr(q) == "[" \o Joined(q) \o "]"

\* the f-strings f'{name}' (inner node) and f'[{name}]' (leaf)
NameText(nm) ==
    IF nm.kind = "str" THEN nm.s ELSE IF nm.kind = "int" THEN Numeral(nm.i[1]) ELSE Repr(nm.i)

KeyText(nm, leaf) == IF leaf THEN "[" \o NameText(nm) \o "]" ELSE NameText(nm)

\* dict[f'{name}'] and dict[f'[{name}]']: the splits of the dict whose text is the key. The
\* text of an index-encoded leaf in brackets and of a list is the text of a split as it
\* stands; a name that is still a string finds a split when it reads like one, as the
\* label "0" of a leaf does
KeysOf(dict, nm, leaf) ==
    IF nm.kind = "str" THEN {q \in DOMAIN dict : Repr(q) = KeyText(nm, leaf)}
    ELSE IF leaf <=> nm.kind = "int" THEN {nm.i} \cap DOMAIN dict
    ELSE {}

HasKey(dict, nm, leaf) == KeysOf(dict, nm, leaf) # {}

Value(dict, nm, leaf) == dict[CHOOSE q \in KeysOf(dict, nm, leaf) : TRUE]

\* self.sorted_nodes[name]: the label of an index-encoded leaf
Reify(self, nm) == Str(self.sorted_nodes[nm.i[1] + 1])

\* the exception of self.sorted_nodes[name]: a list takes numbers only, below its length
NoLabel(self, nm) ==
    IF nm.kind # "int" THEN "TypeError"
    ELSE IF nm.i[1] >= Len(self.sorted_nodes) THEN "IndexError"
    ELSE ""

\* what a walk has done when an exception leaves it: the three lists are changed in
\* place, so every assignment made before the exception stays in them
Raised12(exc, tree1, constree1, constree2, log) ==
    [tree |-> tree1, ramp |-> constree1, coll |-> constree2, log |-> log, raised |-> exc]

Raised34(exc, tree2, constree3, constree4, log) ==
    [tree |-> tree2, coll |-> constree3, ramp |-> constree4, log |-> log, raised |-> exc]

RECURSIVE build_constree12(_, _, _, _)
RECURSIVE loop12(_, _, _, _, _, _, _)

build_constree12(self, tree1, constree1, constree2) ==
    loop12(self, 1, 1, tree1, constree1, constree2, << >>)

loop12(self, i, c, tree1, constree1, constree2, log) ==
    IF i > Len(tree1)
    THEN [tree |-> tree1, ramp |-> constree1, coll |-> constree2, log |-> log, raised |-> ""]
    ELSE IF ~IsLeaf(tree1[i])
    THEN LET temp == build_constree12(self, tree1[i].children, constree1[i].children,
                                      constree2[c].children)
             t1 == [tree1 EXCEPT ![i].children = temp.tree]
             r1 == [constree1 EXCEPT ![i].children = temp.ramp]
             c2 == [constree2 EXCEPT ![c].children = temp.coll]
             c1 == [r1 EXCEPT ![i].length = Value(self.consdict1, tree1[i].name, FALSE)]
         IN  IF temp.raised # "" THEN Raised12(temp.raised, t1, r1, c2, log)
             ELSE IF ~HasKey(self.consdict1, tree1[i].name, FALSE)
             THEN Raised12("KeyError", t1, r1, c2, log)
             ELSE IF ~HasKey(self.consdict2, c2[c].name, FALSE)
             THEN Raised12("KeyError", t1, c1, c2, log)
             ELSE IF EqFalse(Value(self.consdict2, c2[c].name, FALSE))
             THEN loop12(self, i + 1, NextCount(c, Len(c2[c].children)), t1, c1, Splice(c2, c),
                         log \o temp.log \o <<SpliceEvent(c2, c)>>)
             ELSE loop12(self, i + 1, c + 1, t1, c1,
                         [c2 EXCEPT ![c].length = Value(self.consdict1, tree1[i].name, FALSE)],
                         log \o temp.log)
    ELSE LET n1 == constree1[i].name
             n2 == constree2[c].name
             c1 == [constree1 EXCEPT ![i].length = Value(self.consdict1, n1, TRUE)]
             c2 == [constree2 EXCEPT ![c].length = Value(self.consdict1, n2, TRUE)]
             t1 == [tree1 EXCEPT ![i].name = Reify(self, tree1[i].name)]
             named1 == [c1 EXCEPT ![i].name = Reify(self, n1)]
             named2 == [c2 EXCEPT ![c].name = Reify(self, n2)]
         IN  IF ~HasKey(self.consdict1, n1, TRUE)
             THEN Raised12("KeyError", tree1, constree1, constree2, log)
             ELSE IF ~HasKey(self.consdict1, n2, TRUE)
             THEN Raised12("KeyError", tree1, c1, constree2, log)
             ELSE IF NoLabel(self, tree1[i].name) # ""
             THEN Raised12(NoLabel(self, tree1[i].name), tree1, c1, c2, log)
             ELSE IF NoLabel(self, n1) # "" THEN Raised12(NoLabel(self, n1), t1, c1, c2, log)
             ELSE IF NoLabel(self, n2) # "" THEN Raised12(NoLabel(self, n2), t1, named1, c2, log)
             ELSE loop12(self, i + 1, c + 1, t1, named1, named2, log)

(***************************************************************************)
(* Treere.build_constree34: the same walk over tree 2. The recursive call  *)
(* hands constree4's branchset over as constree3 and constree3's as        *)
(* constree4, and the results are assigned back crosswise, as in the code. *)
(* The leaves of tree 2 are renamed only when it is the last tree.         *)
(***************************************************************************)
RECURSIVE build_constree34(_, _, _, _, _)
RECURSIVE loop34(_, _, _, _, _, _, _, _)

build_constree34(self, tree2, constree3, constree4, lasttree) ==
    loop34(self, 1, 1, tree2, constree3, constree4, lasttree, << >>)

loop34(self, i, c, tree2, constree3, constree4, lasttree, log) ==
    IF i > Len(tree2)
    THEN [tree |-> tree2, coll |-> constree3, ramp |-> constree4, log |-> log, raised |-> ""]
    ELSE IF ~IsLeaf(tree2[i])
    THEN LET temp == build_constree34(self, tree2[i].children, constree4[i].children,
                                      constree3[c].children, lasttree)
             t2 == [tree2 EXCEPT ![i].children = temp.tree]
             \* the lists as the call has left them in place, before the assignments
             r3 == [constree3 EXCEPT ![c].children = temp.ramp]
             r4 == [constree4 EXCEPT ![i].children = temp.coll]
             c3 == [constree3 EXCEPT ![c].children = temp.coll]
             a4 == [constree4 EXCEPT ![i].children = temp.ramp]
             c4 == [a4 EXCEPT ![i].length = Value(self.consdict4, tree2[i].name, FALSE)]
         IN  IF temp.raised # "" THEN Raised34(temp.raised, t2, r3, r4, log)
             ELSE IF ~HasKey(self.consdict4, tree2[i].name, FALSE)
             THEN Raised34("KeyError", t2, c3, a4, log)
             ELSE IF ~HasKey(self.consdict3, c3[c].name, FALSE)
             THEN Raised34("KeyError", t2, c3, c4, log)
             ELSE IF EqFalse(Value(self.consdict3, c3[c].name, FALSE))
             THEN loop34(self, i + 1, NextCount(c, Len(c3[c].children)), t2, Splice(c3, c), c4,
                         lasttree, log \o temp.log \o <<SpliceEvent(c3, c)>>)
             ELSE loop34(self, i + 1, c + 1, t2,
                         [c3 EXCEPT ![c].length = Value(self.consdict4, tree2[i].name, FALSE)], c4,
                         lasttree, log \o temp.log)
    ELSE LET n4 == constree4[i].name
             n3 == constree3[c].name
             c4 == [constree4 EXCEPT ![i].length = Value(self.consdict4, n4, TRUE)]
             c3 == [constree3 EXCEPT ![c].length = Value(self.consdict4, n3, TRUE)]
             t2 == IF lasttree THEN [tree2 EXCEPT ![i].name = Reify(self, tree2[i].name)] ELSE tree2
             named4 == [c4 EXCEPT ![i].name = Reify(self, n4)]
             named3 == [c3 EXCEPT ![c].name = Reify(self, n3)]
         IN  IF ~HasKey(self.consdict4, n4, TRUE)
             THEN Raised34("KeyError", tree2, constree3, constree4, log)
             ELSE IF ~HasKey(self.consdict4, n3, TRUE)
             THEN Raised34("KeyError", tree2, constree3, c4, log)
             ELSE IF lasttree /\ NoLabel(self, tree2[i].name) # ""
             THEN Raised34(NoLabel(self, tree2[i].name), tree2, c3, c4, log)
             ELSE IF NoLabel(self, n4) # "" THEN Raised34(NoLabel(self, n4), t2, c3, c4, log)
             ELSE IF NoLabel(self, n3) # "" THEN Raised34(NoLabel(self, n3), t2, c3, named4, log)
             ELSE loop34(self, i + 1, c + 1, t2, named3, named4, lasttree, log)

(***************************************************************************)
(* The state of one run of Treere.jsonTreelist_to_sortedConsensusTreelist. *)
(***************************************************************************)
VARIABLES
    json_treelist,    \* the parsed input, kept as it was handed over
    split,            \* the list of trees tree_traversal works on (its result)
    count,            \* tree_traversal's position in split, from 0
    self,             \* the attributes of the Treere instance
    not_listoftrees,  \* tree_traversal's flag: sort the list when the loop ends
    splices,          \* per processed pair, the splices of build_constree12 / 34
    pc,               \* "start", "traverse", "done"; "idle" while algorithm_5 runs
    newick_list,      \* algorithm_5: the two working trees
    alg,              \* algorithm_5: its locals
    jl,               \* json_list: the lines of the text and the position of its loop
    nexus,            \* _parse_nexus_to_newick_list: the document and the locals
    hl                \* find_to_be_highlighted_leaves_delete: its arguments and locals

vars == <<json_treelist, split, count, self, not_listoftrees, splices, pc, newick_list, alg, jl, nexus, hl>>

\* Treere.__init__ with its defaults; given_leaforder None is the empty list here (the one
\* place that reads it tests `if self.given_leaforder`, which is false of both)
NewTreere ==
    [given_leaforder |-> << >>, step |-> 1, start |-> 1,
     sorted_nodes |-> << >>,
     splitlist1 |-> << >>, splitlist2 |-> << >>,
     splitdict1 |-> EmptyDict, splitdict2 |-> EmptyDict,
     consdict1 |-> EmptyDict, consdict2 |-> EmptyDict,
     consdict3 |-> EmptyDict, consdict4 |-> EmptyDict]

\* jsonTreelist_to_sortedConsensusTreelist up to its call of tree_traversal: get_nodes
\* appends to self.sorted_nodes, and a leaf order that was given is checked against the result.
\* check_order_validity returns the list given_leaforder itself when it takes the order
\* (line 229), and line 526 makes it self.sorted_nodes: from then on the two attributes are
\* one list, and what get_nodes appends in a later call is appended to both. An instance
\* has the two attributes equal and not empty in this case only: sorted_nodes is empty on
\* a new instance, and an order that was not taken differs from sorted_nodes as a set.
SetSortedNodes(tr, treelist) ==
    LET one_list == tr.given_leaforder # << >> /\ tr.sorted_nodes = tr.given_leaforder
        sorted_nodes == tr.sorted_nodes \o get_nodes(treelist[1].children)
        given_leaforder == IF one_list THEN sorted_nodes ELSE tr.given_leaforder
    IN  [tr EXCEPT !.given_leaforder = given_leaforder,
                   !.sorted_nodes =
                       IF given_leaforder # << >>
                       THEN check_order_validity(given_leaforder, sorted_nodes)
                       ELSE sorted_nodes]

\* the test "we are at the root node" of tree_traversal
IsRootItem(tr, node) == node.name.kind = "list" /\ Len(node.name.i) = Len(tr.sorted_nodes)

\* the four new trees get the root of the current tree
WithRoot(item, branchset) == MkNode(item.name, item.length, branchset)

\* mutant: the trees derived from tree 2 come first
NewTreesSwapped(item, b12, b34) ==
    <<WithRoot(item, b34.coll), WithRoot(item, b34.ramp),
      WithRoot(item, b12.ramp), WithRoot(item, b12.coll)>>

\* new_trees: build_constree12(...)[1:3] extended by build_constree34(...)[1:3]
NewTrees(item, b12, b34) ==
    <<WithRoot(item, b12.ramp), WithRoot(item, b12.coll),
      WithRoot(item, b34.coll), WithRoot(item, b34.ramp)>>

\* split[count:count] = new_trees
InsertNewTrees(list, cnt, new_trees) ==
    SubSeq(list, 1, cnt) \o new_trees \o SubSeq(list, cnt + 1, Len(list))

\* count += len(new_trees)
SkipNewTrees(cnt, new_trees) == cnt + Len(new_trees)

\* split[count - 1], from 1: the index -1 of Python is the last item of the list
Previous(list, cnt) == IF cnt = 0 THEN Len(list) ELSE cnt

\* the sort that ends tree_traversal when no pair was processed
FinalSort(list, flag) == IF flag THEN SortNodes(list) ELSE list

(***************************************************************************)
(* Treere.tree_traversal. The function is called on the list of trees and, *)
(* by itself, on the branchset of every inner item; a call is a while loop *)
(* with its own count, leaflist and not_listoftrees, and every call works  *)
(* on the same self. TraverseTree is one round of the loop of any call: it *)
(* returns the list, the count, self and the flag as the round leaves      *)
(* them, the leaves it added to leaflist, the splices made, and the        *)
(* exception that ended it ("" when none did). The lists and dicts of      *)
(* Python are changed in place, so what a round has written stays when an  *)
(* exception leaves it. The round is written as a chain of operators, each *)
(* handing its results to the next as arguments.                           *)
(***************************************************************************)
RoundOf(list, cnt, tr, flag, leaves, log, paired, exc) ==
    [split |-> list, count |-> cnt, self |-> tr, flag |-> flag, leaves |-> leaves,
     log |-> log, paired |-> paired, raised |-> exc]

\* mutant: the walks change the lengths in the two trees themselves, not in copies
PairResultInPlace(list4, cnt, tr3, item, leaves, log, b12, b34) ==
    RoundOf(InsertNewTrees([list4 EXCEPT ![Previous(list4, cnt)].children = b12.ramp,
                                             ![cnt + 1].children = b34.ramp],
                               cnt, NewTrees(item, b12, b34)),
                SkipNewTrees(cnt, NewTrees(item, b12, b34)) + 1,
                [tr3 EXCEPT !.splitlist1 = tr3.splitlist2, !.splitdict1 = tr3.splitdict2,
                            !.splitlist2 = << >>, !.splitdict2 = EmptyDict],
                FALSE, leaves, log \o <<[c12 |-> b12.log, c34 |-> b34.log]>>, TRUE, "")

\* split[count:count] = new_trees; count += len(new_trees); the split lists of tree 2
\* become those of tree 1; count += 1
PairResult(list4, cnt, tr3, item, leaves, log, b12, b34) ==
    RoundOf(InsertNewTrees(list4, cnt, NewTrees(item, b12, b34)),
                SkipNewTrees(cnt, NewTrees(item, b12, b34)) + 1,
                [tr3 EXCEPT !.splitlist1 = tr3.splitlist2, !.splitdict1 = tr3.splitdict2,
                            !.splitlist2 = << >>, !.splitdict2 = EmptyDict],
                FALSE, leaves, log \o <<[c12 |-> b12.log, c34 |-> b34.log]>>, TRUE, "")

\* tree 2 is walked with two copies of it, made after the walk of tree 1
WalkCurrent(list3, cnt, tr3, item, leaves, log, flag, b12, b34) ==
    IF b34.raised # ""
    THEN RoundOf([list3 EXCEPT ![cnt + 1].children = b34.tree], cnt, tr3, flag, leaves, log,
                     FALSE, b34.raised)
    ELSE PairResult([list3 EXCEPT ![cnt + 1].children = b34.tree], cnt, tr3, item, leaves, log,
                    b12, b34)

\* tree 1 was walked with two copies of it: the walk has renamed its leaves in the list
WalkPrevious(list2, cnt, tr3, item, leaves, log, flag, b12, list3) ==
    IF b12.raised # ""
    THEN RoundOf(list3, cnt, tr3, flag, leaves, log, FALSE, b12.raised)
    ELSE WalkCurrent(list3, cnt, tr3, item, leaves, log, flag, b12,
                     build_constree34(tr3, list3[cnt + 1].children, list3[cnt + 1].children,
                                      list3[cnt + 1].children, cnt = Len(list2) - 1))

\* the two walks: tree1, constree1 and constree2 are the branchset of the previous item,
\* tree2, constree3 and constree4 that of the current one; an item without children has no
\* key "children"
BuildTrees(list2, cnt, tr3, item, leaves, log, flag) ==
    IF IsLeaf(list2[Previous(list2, cnt)])
    THEN RoundOf(list2, cnt, tr3, flag, leaves, log, FALSE, "KeyError")
    ELSE LET tree1 == list2[Previous(list2, cnt)].children
             b12 == build_constree12(tr3, tree1, tree1, tree1)
         IN  WalkPrevious(list2, cnt, tr3, item, leaves, log, flag, b12,
                          [list2 EXCEPT ![Previous(list2, cnt)].children = b12.tree])

\* compare_splitlists has sorted the two split lists of self and fills its four consdicts
ComparePair(list2, cnt, tr2, item, leaves, log, flag, sl1, sl2, cons) ==
    BuildTrees(list2, cnt,
               [tr2 EXCEPT !.splitlist1 = sl1, !.splitlist2 = sl2,
                           !.consdict1 = cons.consdict1, !.consdict2 = cons.consdict2,
                           !.consdict3 = cons.consdict3, !.consdict4 = cons.consdict4],
               item, leaves, log, flag)

\* the two split lists are sorted and compared
SortedPair(list2, cnt, tr2, item, leaves, log, flag, sl1, sl2) ==
    ComparePair(list2, cnt, tr2, item, leaves, log, flag, sl1, sl2,
                compare_splitlists(sl1, sl2, tr2.splitdict1, tr2.splitdict2))

\* the item was traversed: it is no root, the first root, or a root with a predecessor
AtItem(list2, cnt, tr2, flag, item, leaves, log) ==
    IF ~IsRootItem(tr2, item)
    THEN RoundOf(list2, cnt + 1, tr2, flag, leaves, log, FALSE, "")
    ELSE IF tr2.splitlist1 = << >>
    THEN RoundOf(list2, cnt + 1,
                     [tr2 EXCEPT !.splitlist1 = tr2.splitlist2, !.splitdict1 = tr2.splitdict2,
                                 !.splitlist2 = << >>, !.splitdict2 = EmptyDict],
                     flag, leaves, log, FALSE, "")
    ELSE SortedPair(list2, cnt, tr2, item, leaves, log, flag,
                    SortSplitlist(tr2.splitlist1), SortSplitlist(tr2.splitlist2))

\* the item is in the list as the first half of the round left it
AfterItem(list, cnt, flag, res) ==
    IF res.raised # ""
    THEN RoundOf([list EXCEPT ![cnt + 1] = res.node], cnt, res.self, flag, << >>, res.log,
                     FALSE, res.raised)
    ELSE AtItem([list EXCEPT ![cnt + 1] = res.node], cnt, res.self, flag, res.node,
                res.leaflist, res.log)

ItemResult(node, leaflist, tr, log, exc) ==
    [node |-> node, leaflist |-> leaflist, self |-> tr, log |-> log, raised |-> exc]

RECURSIVE TraverseTree(_, _, _, _)
RECURSIVE traversal_loop(_, _, _, _, _, _)

\* the while loop of a call from count on, and the sort that ends it
traversal_loop(list, cnt, tr, flag, leaflist, log) ==
    IF cnt >= Len(list)
    THEN [split |-> FinalSort(list, flag), leaflist |-> leaflist, self |-> tr, log |-> log,
          raised |-> ""]
    ELSE LET r == TraverseTree(list, cnt, tr, flag)
         IN  IF r.raised # ""
             THEN [split |-> r.split, leaflist |-> leaflist, self |-> r.self,
                   log |-> log \o r.log, raised |-> r.raised]
             ELSE traversal_loop(r.split, r.count, r.self, r.flag, leaflist \o r.leaves,
                                 log \o r.log)

\* self.tree_traversal(item["children"])
traversal_branchset(branchset, tr) == traversal_loop(branchset, 0, tr, TRUE, << >>, << >>)

\* an inner item after the call for its branchset: it is renamed to the sorted list of the
\* leaves below it, and the split is appended to splitlist2 and written to splitdict2
InnerItem(item, len, tmp, child_leaflist) ==
    IF tmp.raised # ""
    THEN ItemResult(MkNode(item.name, len, tmp.split), << >>, tmp.self, tmp.log, tmp.raised)
    ELSE ItemResult(MkNode(Lst(child_leaflist), len, tmp.split), child_leaflist,
                    [tmp.self EXCEPT !.splitlist2 = @ \o <<child_leaflist>>,
                                     !.splitdict2 = Update(@, [k \in {child_leaflist} |-> len])],
                    tmp.log, "")

\* a leaf: sorted_nodes.index(name) raises ValueError when the list does not hold the name
LeafItem(item, len, tr) ==
    IF item.name.kind # "str" \/ item.name.s \notin Range(tr.sorted_nodes)
    THEN ItemResult(MkNode(item.name, len, << >>), << >>, tr, << >>, "ValueError")
    ELSE LET ix == IndexOf(tr.sorted_nodes, item.name.s)
         IN  ItemResult(MkNode(Idx(ix), len, << >>), <<ix>>,
                        [tr EXCEPT !.splitlist2 = @ \o <<(<<ix>>)>>,
                                   !.splitdict2 = Update(@, [k \in {<<ix>>} |-> len])],
                        << >>, "")

\* the first half of a round: the length is fixed, and the item is traversed
traversal_item(item, tr) ==
    IF ~IsLeaf(item)
    THEN LET tmp == traversal_branchset(item.children, tr)
         IN  InnerItem(item, FixLength(item.length), tmp, SortInt(tmp.leaflist))
    ELSE LeafItem(item, FixLength(item.length), tr)

TraverseTree(list, cnt, tr, flag) ==
    AfterItem(list, cnt, flag, traversal_item(list[cnt + 1], tr))

(***************************************************************************)
(* The inputs the runs are started on.                                     *)
(*   A shape is a parsed tree over a set of taxa, every length missing.    *)
(*   TreeOf(shape, p) is the shape written the p-th way: way 0 leaves out  *)
(*   every length and keeps the order of the children, every other way     *)
(*   gives each node a length of 0, 1.0 or 2.0 that depends on p and on    *)
(*   the leaves below it (the root too), and the odd ways write the        *)
(*   children of every node in reverse order.                              *)
(***************************************************************************)
MaxTrees == 3
MaxPattern == 1

Taxa == <<"A", "B", "C", "D", "E", "F">>

MinOf(S) == CHOOSE x \in S : \A y \in S : x <= y

RECURSIVE Partitions(_)
Partitions(S) ==
    IF S = {} THEN {{}}
    ELSE LET x == MinOf(S)
         IN  UNION {{{{x} \cup B} \cup P : P \in Partitions((S \ {x}) \ B)} : B \in SUBSET (S \ {x})}

RECURSIVE BlocksSeq(_)
BlocksSeq(P) ==
    IF P = {} THEN << >>
    ELSE LET b == CHOOSE b \in P : \A c \in P : MinOf(b) <= MinOf(c)
         IN  <<b>> \o BlocksSeq(P \ {b})

RECURSIVE Shapes(_)
RECURSIVE ChildLists(_)
Shapes(S) ==
    IF Cardinality(S) = 1 THEN {MkNode(Str(Taxa[MinOf(S)]), NoLen, << >>)}
    ELSE {MkNode(Str(""), NoLen, ch) :
            ch \in UNION {ChildLists(BlocksSeq(P)) : P \in {Q \in Partitions(S) : Cardinality(Q) >= 2}}}
ChildLists(bs) ==
    IF bs = << >> THEN {<< >>}
    ELSE {<<t>> \o rest : t \in Shapes(Head(bs)), rest \in ChildLists(Tail(bs))}

Reverse(q) == [k \in DOMAIN q |-> q[Len(q) + 1 - k]]

\* the ranks in Taxa of the leaves of a parsed tree
RECURSIVE RanksOf(_)
RanksOf(node) ==
    IF IsLeaf(node) THEN {CHOOSE k \in DOMAIN Taxa : Taxa[k] = node.name.s}
    ELSE UNION {RanksOf(node.children[k]) : k \in DOMAIN node.children}

PatLen(p, S) == 2 * ((Cardinality(S) + MinOf(S) + p) % 3)

RECURSIVE TreeOf(_, _)
TreeOf(shape, p) ==
    LET kids == [k \in DOMAIN shape.children |-> TreeOf(shape.children[k], p)]
    IN  MkNode(shape.name,
               IF p = 0 THEN NoLen ELSE PatLen(p, RanksOf(shape)),
               IF p % 2 = 1 THEN Reverse(kids) ELSE kids)

FourTaxa == 1..4
Pool == {TreeOf(sh, p) : sh \in Shapes(FourTaxa), p \in 0..MaxPattern}

\* the trees with one cherry that holds the last taxon
SmallShapes == {sh \in Shapes(FourTaxa) :
                  /\ Len(sh.children) = 3
                  /\ \E k \in 1..3 : 4 \in RanksOf(sh.children[k]) /\ ~IsLeaf(sh.children[k])}
SmallPool == {TreeOf(sh, p) : sh \in SmallShapes, p \in 0..MaxPattern}

RECURSIVE SeqsOver(_, _)
SeqsOver(S, n) == IF n = 0 THEN {<< >>} ELSE {<<x>> \o q : x \in S, q \in SeqsOver(S, n - 1)}

TreeLists ==
    {<<t>> : t \in Pool} \cup (Pool \X Pool) \cup UNION {SeqsOver(SmallPool, n) : n \in 3..MaxTrees}

(***************************************************************************)
(* Spec: Treere.jsonTreelist_to_sortedConsensusTreelist on a list of       *)
(* parsed trees over the same leaves.                                      *)
(***************************************************************************)
\* the locals of algorithm_5 before it is called (see SpecAlgo)
FunctionalTree(all_sedges, edge_types, ancestor_edges, arms) ==
    [all_sedges |-> all_sedges, edge_types |-> edge_types,
     ancestor_edges |-> ancestor_edges, arms |-> arms]

EmptyNode == [name |-> << >>, children |-> << >>, length |-> 0]

\* the locals of _parse_nexus_to_newick_list before it is called (see SpecNexus)
IdleNexus ==
    [pieces |-> << >>, nexus_content |-> << >>, content_no_comments |-> << >>,
     trees_block |-> << >>, tree_matches |-> << >>, newick_trees |-> << >>]

\* the locals of handle_uploaded_file and of find_to_be_highlighted_leaves_delete before
\* they are called (see SpecPairs)
IdleHighlights ==
    [newick_string_list |-> << >>, rfd_list |-> << >>, weighted_robinson_foulds_list |-> << >>,
     i |-> 0, highlights_every_tree_list |-> << >>, raised |-> ""]

\* the locals of json_list before it is called (see SpecDecode)
IdleLines == [lines |-> << >>, i |-> 0, raised |-> ""]

IdleAlg ==
    [it1 |-> EmptyNode, it2 |-> EmptyNode, sorted_nodes |-> << >>,
     queue |-> << >>, pending |-> {}, decoded_list |-> << >>,
     global_decoded_result_list |-> {}, raised |-> FALSE,
     rounds |-> 0, leaf_count |-> 0, input |-> << >>, verdicts |-> << >>, exc |-> "",
     at |-> ""]

Init ==
    /\ json_treelist \in TreeLists
    /\ split = json_treelist
    /\ count = 0
    /\ self = NewTreere
    /\ not_listoftrees = TRUE
    /\ splices = << >>
    /\ pc = "start"
    /\ newick_list = << >>
    /\ alg = IdleAlg
    /\ jl = IdleLines
    /\ nexus = IdleNexus
    /\ hl = IdleHighlights

\* lines 521-526 of jsonTreelist_to_sortedConsensusTreelist: a first tree that is a leaf has
\* no children to read, and the KeyError ends the call
Start ==
    /\ pc = "start"
    /\ IF IsLeaf(json_treelist[1])
       THEN self' = self /\ pc' = "raised"
       ELSE self' = SetSortedNodes(self, json_treelist) /\ pc' = "traverse"
    /\ UNCHANGED <<json_treelist, split, count, not_listoftrees, splices, newick_list, alg, jl, nexus, hl>>

\* one round of the loop of tree_traversal over the list of trees
Traverse ==
    /\ pc = "traverse"
    /\ count < Len(split)
    /\ LET r == TraverseTree(split, count, self, not_listoftrees)
       IN  /\ r.raised = ""
           /\ split' = r.split
           /\ count' = r.count
           /\ self' = r.self
           /\ not_listoftrees' = r.flag
           /\ splices' = splices \o r.log
    /\ UNCHANGED <<json_treelist, pc, newick_list, alg, jl, nexus, hl>>

\* the end of the loop: the sort, and the return
Finish ==
    /\ pc = "traverse"
    /\ count >= Len(split)
    /\ split' = FinalSort(split, not_listoftrees)
    /\ pc' = "done"
    /\ UNCHANGED <<json_treelist, count, self, not_listoftrees, splices, newick_list, alg, jl, nexus, hl>>

(***************************************************************************)
(* Treere.initiate_leave_order and denote_leaves_with_order: what a caller *)
(* may do to a tree of the list it was handed. A node that was visited     *)
(* has two more keys. The children of the node the call was made for are   *)
(* sorted by leave_order_index, which is 99999 for an inner node: the      *)
(* leaves come first, in the order of sorted_nodes. A leaf whose name      *)
(* sorted_nodes does not hold ends the call with a ValueError, and the     *)
(* nodes visited before it keep their keys.                                *)
(***************************************************************************)
Denoted(node, leave_order_index, tree_order_index) ==
    [name |-> node.name, length |-> node.length, children |-> node.children,
     leave_order_index |-> leave_order_index, tree_order_index |-> tree_order_index]

RECURSIVE denote_leaves_with_order(_, _, _)
RECURSIVE denote_children(_, _, _, _)

\* for child in node['children']: self.denote_leaves_with_order(child, i), from child k on
denote_children(children, k, i, tr) ==
    IF k > Len(children) THEN [children |-> children, raised |-> ""]
    ELSE LET d == denote_leaves_with_order(children[k], i, tr)
             visited == [children EXCEPT ![k] = d.node]
         IN  IF d.raised # "" THEN [children |-> visited, raised |-> d.raised]
             ELSE denote_children(visited, k + 1, i, tr)

denote_leaves_with_order(node, i, tr) ==
    IF ~IsLeaf(node)
    THEN LET c == denote_children(node.children, 1, i, tr)
         IN  IF c.raised # ""
             THEN [node |-> [node EXCEPT !.children = c.children], raised |-> c.raised]
             ELSE [node |-> Denoted([node EXCEPT !.children = c.children], 99999, 99999),
                   raised |-> ""]
    ELSE IF node.name.kind # "str" \/ node.name.s \notin Range(tr.sorted_nodes)
    THEN [node |-> node, raised |-> "ValueError"]
    ELSE [node |-> Denoted(node, IndexOf(tr.sorted_nodes, node.name.s), i), raised |-> ""]

\* node['children'].sort(key=operator.itemgetter('leave_order_index')): equal keys keep
\* their order
RECURSIVE InsertByOrder(_, _)
InsertByOrder(sorted, x) ==
    IF sorted = << >> THEN <<x>>
    ELSE IF x.leave_order_index < Head(sorted).leave_order_index THEN <<x>> \o sorted
    ELSE <<Head(sorted)>> \o InsertByOrder(Tail(sorted), x)

RECURSIVE SortByOrder(_)
SortByOrder(q) ==
    IF q = << >> THEN << >> ELSE InsertByOrder(SortByOrder(SubSeq(q, 1, Len(q) - 1)), q[Len(q)])

initiate_leave_order(node, tr) ==
    IF IsLeaf(node) THEN [node |-> node, raised |-> ""]
    ELSE LET c == denote_children(node.children, 1, 0, tr)
         IN  IF c.raised # ""
             THEN [node |-> [node EXCEPT !.children = c.children], raised |-> c.raised]
             ELSE [node |-> [node EXCEPT !.children = SortByOrder(c.children)], raised |-> ""]

\* the caller has the list and calls initiate_leave_order for one of its trees
InitiateLeaveOrder ==
    /\ pc = "done"
    /\ \E k \in DOMAIN split :
          LET r == initiate_leave_order(split[k], self)
          IN  /\ split' = [split EXCEPT ![k] = r.node]
              /\ pc' = IF r.raised # "" THEN "order raised" ELSE "ordered"
    /\ UNCHANGED <<json_treelist, count, self, not_listoftrees, splices, newick_list, alg, jl, nexus, hl>>

Next == Start \/ Traverse \/ Finish \/ InitiateLeaveOrder

Spec == Init /\ [][Next]_vars

(***************************************************************************)
(* SpecOrder: the same function on an instance that was given a leaf       *)
(* order, and on lists whose last tree may have other leaves than the      *)
(* first or whose trees may have a root with a single child. A leaf that   *)
(* sorted_nodes does not hold ends the call with a ValueError. A node      *)
(* below the root that holds every leaf passes the root test inside the    *)
(* recursion, and the walks that follow end the call with a KeyError. No   *)
(* caller catches either.                                                  *)
(***************************************************************************)
\* the trees over three of the four taxa, and trees over five whose first leaf is the fifth
Strangers ==
    Shapes(1..3)
    \cup {MkNode(Str(""), NoLen, <<MkNode(Str(Taxa[5]), NoLen, << >>), sh>>) : sh \in SmallShapes}

Dotted == MkNode(Str(""), NoLen, <<MkNode(Str("A.1"), NoLen, << >>), MkNode(Str("B"), NoLen, << >>),
                                   MkNode(Str("C"), NoLen, << >>)>>)

\* a tree written in two pairs of parentheses too many: json_list takes one pair away, and a
\* root is left whose only child holds every leaf
Wrapped == {MkNode(Str(""), NoLen, <<t>>) : t \in SmallPool}
TwiceWrapped == {MkNode(Str(""), NoLen, <<t>>) : t \in {w \in Wrapped : w.children[1].length = NoLen}}

\* the same trees with numbers for labels: "0" for the first taxon
RECURSIVE Renumbered(_)
Renumbered(node) ==
    IF IsLeaf(node)
    THEN [node EXCEPT !.name = Str(Numeral((CHOOSE k \in DOMAIN Taxa : Taxa[k] = node.name.s) - 1))]
    ELSE [node EXCEPT !.children = [k \in DOMAIN node.children |-> Renumbered(node.children[k])]]

NumberedLists ==
    LET plain == {Renumbered(t) : t \in SmallShapes}
        wrapped == {Renumbered(w) : w \in TwiceWrapped}
    IN  (plain \X wrapped) \cup (wrapped \X plain) \cup {<<t, t>> : t \in plain}
        \cup {<<t, t, w>> : t \in plain, w \in wrapped}

\* lists whose first tree is a leaf: 'A;' has no children
LeafFirst ==
    LET leaf == MkNode(Str("A"), NoLen, << >>)
    IN  {<<leaf>>} \cup {<<leaf, t>> : t \in SmallShapes}

OrderLists ==
    NumberedLists \cup LeafFirst \cup
    {<<t>> : t \in SmallPool} \cup (SmallPool \X (SmallPool \cup Strangers))
    \cup {<<t, t, u>> : t \in SmallShapes, u \in Strangers}
    \cup {<<Dotted>>, <<Dotted, Dotted>>}
    \cup {<<w>> : w \in Wrapped \cup TwiceWrapped}
    \cup (Wrapped \X SmallPool) \cup (SmallPool \X (Wrapped \cup TwiceWrapped))
    \cup {<<t, u, w>> : t \in SmallShapes, u \in SmallShapes, w \in Wrapped}

RECURSIVE Orders(_)
Orders(S) == IF S = {} THEN {<< >>} ELSE UNION {{<<x>> \o q : q \in Orders(S \ {x})} : x \in S}

\* no order, the orders of the four taxa, and orders with a name twice, a name missing,
\* a name too many, and of the dotted tree
GivenOrders ==
    {<< >>} \cup Orders({"A", "B", "C", "D"})
    \cup {<<"A", "A", "B", "C", "D">>, <<"D", "C", "B">>, <<"E", "D", "C", "B", "A">>,
          <<"C", "B", "A-1">>, <<"C", "B", "A.1">>}

InitOrder ==
    /\ json_treelist \in OrderLists
    /\ split = json_treelist
    /\ count = 0
    /\ self \in {[NewTreere EXCEPT !.given_leaforder = o] : o \in GivenOrders}
    /\ not_listoftrees = TRUE
    /\ splices = << >>
    /\ pc = "start"
    /\ newick_list = << >>
    /\ alg = IdleAlg
    /\ jl = IdleLines
    /\ nexus = IdleNexus
    /\ hl = IdleHighlights

\* an exception leaves tree_traversal in the round of the item it has reached: the trees and
\* self stay as the round has changed them up to there
TraverseRaises ==
    /\ pc = "traverse"
    /\ count < Len(split)
    /\ LET r == TraverseTree(split, count, self, not_listoftrees)
       IN  /\ r.raised # ""
           /\ split' = r.split
           /\ self' = r.self
    /\ pc' = "raised"
    /\ UNCHANGED <<json_treelist, count, not_listoftrees, splices, newick_list, alg, jl, nexus, hl>>

NextOrder == Start \/ Traverse \/ TraverseRaises \/ Finish

SpecOrder == InitOrder /\ [][NextOrder]_vars

(***************************************************************************)
(* jsonTreelist_to_sortedConsensusTreelist as one function: the loop of    *)
(* tree_traversal run to its end, as algorithm_5 calls it.                 *)
(***************************************************************************)
tree_traversal(list, cnt, tr, flag) == traversal_loop(list, cnt, tr, flag, << >>, << >>)

\* line 521 reads the children of the first tree: a first tree that is a leaf has none
jsonTreelist_to_sortedConsensusTreelist(treelist) ==
    IF IsLeaf(Head(treelist))
    THEN RoundOf(treelist, 0, NewTreere, TRUE, << >>, << >>, FALSE, "KeyError")
    ELSE tree_traversal(treelist, 0, SetSortedNodes(NewTreere, treelist), TRUE)

\* json_list: every line is parsed, and a root with one child gives way to that child.
\* A line that spells a single node is parsed to a dict without children, and
\* len(result["children"]) raises
json_list(lines) ==
    IF \E k \in DOMAIN lines : IsLeaf(lines[k])
    THEN [list |-> << >>, raised |-> "KeyError"]
    ELSE [list |-> [k \in DOMAIN lines |->
                       IF Len(lines[k].children) = 1 THEN lines[k].children[1] ELSE lines[k]],
          raised |-> ""]

(***************************************************************************)
(* The three operations of ete3.Tree that delete_tree_leaves_for_coloring  *)
(* calls. A newick string is held as the tree it spells.                   *)
(*   Tree(newick): a node without ":dist" gets the dist 1.0.               *)
(*   delete(): the leaf leaves its parent; a parent left with fewer than   *)
(*     two children that has a parent itself is deleted too, and its       *)
(*     children are appended to the children of its own parent.            *)
(*   write(): leaves as name:dist, inner nodes as support:dist (support    *)
(*     is 1), the root without label and dist.                             *)
(***************************************************************************)
DefaultDist == 2

RECURSIVE Tree(_)
Tree(newick) ==
    MkNode(newick.name,
           IF newick.length = NoLen THEN DefaultDist ELSE newick.length,
           [k \in DOMAIN newick.children |-> Tree(newick.children[k])])

RECURSIVE LabelsBelow(_)
LabelsBelow(node) ==
    IF IsLeaf(node) THEN {node.name.s}
    ELSE UNION {LabelsBelow(node.children[k]) : k \in DOMAIN node.children}

\* search_nodes(name=leave) walks the tree level by level: its first node is the one the
\* fewest edges below the root, and the leftmost of these. Levels: how many edges below
\* node the leaves of that name are
RECURSIVE Levels(_, _)
Levels(node, leave) ==
    IF IsLeaf(node) THEN (IF node.name.s = leave THEN {0} ELSE {})
    ELSE {l + 1 : l \in UNION {Levels(node.children[k], leave) : k \in DOMAIN node.children}}

Holds(node, leave) == Levels(node, leave) # {}
LevelOf(node, leave) == MinOf(Levels(node, leave))

\* search_nodes(name=leave)[0].delete() on the tree below node; the root itself stays
RECURSIVE delete(_, _)
delete(node, leave) ==
    IF IsLeaf(node) THEN node
    ELSE LET ch == node.children
             first(j) == Holds(ch[j], leave) /\ LevelOf(ch[j], leave) + 1 = LevelOf(node, leave)
             k == CHOOSE j \in DOMAIN ch : first(j) /\ \A i \in 1..(j - 1) : ~first(i)
         IN  IF IsLeaf(ch[k]) THEN [node EXCEPT !.children = RemoveAt(ch, k)]
             ELSE LET sub == delete(ch[k], leave)
                  IN  IF LevelOf(ch[k], leave) = 1 /\ Len(sub.children) < 2
                      THEN [node EXCEPT !.children = RemoveAt(ch, k) \o sub.children]
                      ELSE [node EXCEPT !.children[k] = sub]

\* lines 120-126: a leaf that one of the two trees does not have ends the loop with the
\* IndexError of [0]
RECURSIVE delete_all(_, _, _)
delete_all(t1, t2, leaves) ==
    IF leaves = << >> THEN [t1 |-> t1, t2 |-> t2, raised |-> ""]
    ELSE IF Head(leaves) \notin LabelsBelow(t1) \/ Head(leaves) \notin LabelsBelow(t2)
    THEN [t1 |-> t1, t2 |-> t2, raised |-> "IndexError"]
    ELSE delete_all(delete(t1, Head(leaves)), delete(t2, Head(leaves)), Tail(leaves))

RECURSIVE write_node(_)
write_node(node) ==
    IF IsLeaf(node) THEN node
    ELSE MkNode(Str("1"), node.length, [k \in DOMAIN node.children |-> write_node(node.children[k])])

write(t) ==
    IF IsLeaf(t) THEN t
    ELSE MkNode(Str(""), NoLen, [k \in DOMAIN t.children |-> write_node(t.children[k])])

(***************************************************************************)
(* main_find_highlights.Node. A Node is a record [name, children, length], *)
(* name the tuple of the leaf indices below it. full_name is left out: it  *)
(* is a function of the children, so that the equality of two records is   *)
(* Node.__eq__.                                                            *)
(***************************************************************************)
Node(name, children, length) == [name |-> name, children |-> children, length |-> length]

RECURSIVE from_dict(_, _)
from_dict(d, sorted_nodes) ==
    IF ~IsLeaf(d)
    THEN Node(d.name.i, [k \in DOMAIN d.children |-> from_dict(d.children[k], sorted_nodes)], d.length)
    ELSE Node(<<IndexOf(sorted_nodes, d.name.s)>>, << >>, d.length)

\* sorted_nodes.index(d["name"]) of a leaf whose name the list does not hold: ValueError
RECURSIVE NotListed(_, _)
NotListed(d, sorted_nodes) ==
    IF ~IsLeaf(d) THEN \E k \in DOMAIN d.children : NotListed(d.children[k], sorted_nodes)
    ELSE d.name.kind # "str" \/ d.name.s \notin Range(sorted_nodes)

\* what the function hands back, or the exception that ends it
Returns(it1, it2, sorted_nodes, a) ==
    [it1 |-> it1, it2 |-> it2, sorted_nodes |-> sorted_nodes, newick_list |-> a, raised |-> ""]

Raises(exc) ==
    [it1 |-> EmptyNode, it2 |-> EmptyNode, sorted_nodes |-> << >>, newick_list |-> << >>,
     raised |-> exc]

\* line 141: the intermediate trees 1 and 4 of the pair, the leaf order and the two
\* strings that were written
IntermediateTrees(res, a) ==
    IF res.raised # "" THEN Raises(res.raised)
    ELSE IF Len(res.split) < 2 THEN Raises("IndexError")
    ELSE IF NotListed(res.split[2], res.self.sorted_nodes) THEN Raises("ValueError")
    ELSE IF Len(res.split) < 5 THEN Raises("IndexError")
    ELSE IF NotListed(res.split[5], res.self.sorted_nodes) THEN Raises("ValueError")
    ELSE Returns(from_dict(res.split[2], res.self.sorted_nodes),
                 from_dict(res.split[5], res.self.sorted_nodes),
                 res.self.sorted_nodes, a)

\* lines 128-141
WrittenTrees(a) ==
    IF json_list(a).raised # "" THEN Raises(json_list(a).raised)
    ELSE IntermediateTrees(jsonTreelist_to_sortedConsensusTreelist(json_list(a).list), a)

delete_tree_leaves_for_coloring_newick(to_be_deleted_leaves, newick_pair) ==
    LET pruned == delete_all(Tree(newick_pair[1]), Tree(newick_pair[2]), to_be_deleted_leaves)
    IN  IF pruned.raised # "" THEN Raises(pruned.raised)
        ELSE WrittenTrees(<<write(pruned.t1), write(pruned.t2)>>)

(***************************************************************************)
(* algorithm_5.py: components, edge types and the FunctionalTree.          *)
(* A component is a node name (a tuple of leaf indices), a component set   *)
(* (an arm) a tuple of components. The keys of _ancestor_edges are node    *)
(* names and arms, which Python never finds equal: they are told apart by  *)
(* the field arm.                                                          *)
(***************************************************************************)
RECURSIVE calculate_component_set_tree(_)
calculate_component_set_tree(node) ==
    IF node.length # 0 THEN <<node.name>>
    ELSE IF Len(node.children) = 0 THEN <<node.name>>
    ELSE SortLex(Flatten([k \in DOMAIN node.children |->
                             SortLex(calculate_component_set_tree(node.children[k]))]))

NameKey(name) == [arm |-> FALSE, c |-> <<name>>]
ArmKey(arm) == [arm |-> TRUE, c |-> arm]

\* FunctionalTree.__add__
Add(t, other) ==
    FunctionalTree(t.all_sedges \o other.all_sedges,
                   Update(t.edge_types, other.edge_types),
                   Update(t.ancestor_edges, other.ancestor_edges),
                   Update(t.arms, other.arms))

\* mutant: partial does not ask for a positive length of the node itself
get_type_any_child(node) ==
    IF Len(node.children) = 0 THEN "leaf"
    ELSE IF (\A k \in DOMAIN node.children : node.children[k].length = 0) /\ node.length > 0
    THEN "full"
    ELSE IF \E k \in DOMAIN node.children : node.children[k].length = 0
    THEN "partial"
    ELSE IF (\A k \in DOMAIN node.children : node.children[k].length > 0) /\ node.length = 0
    THEN "anti"
    ELSE "none"

get_type(node) ==
    IF Len(node.children) = 0 THEN "leaf"
    ELSE IF (\A k \in DOMAIN node.children : node.children[k].length = 0) /\ node.length > 0
    THEN "full"
    ELSE IF (\E k \in DOMAIN node.children : node.children[k].length = 0) /\ node.length > 0
    THEN "partial"
    ELSE IF (\A k \in DOMAIN node.children : node.children[k].length > 0) /\ node.length = 0
    THEN "anti"
    ELSE "none"

RECURSIVE traverse(_)
traverse(node) ==
    LET type_ == get_type(node)
        edge_arms == [k \in DOMAIN node.children |-> calculate_component_set_tree(node.children[k])]
        keys == {NameKey(node.children[k].name) : k \in DOMAIN node.children}
                    \cup {ArmKey(edge_arms[k]) : k \in DOMAIN edge_arms}
        t1 == FunctionalTree(IF type_ \in {"full", "partial"} THEN <<node>> ELSE << >>,
                             [n \in {node.name} |-> type_],
                             [key \in keys |-> node],
                             [n \in {node.name} |-> edge_arms])
        sum[k \in 0..Len(node.children)] ==
            IF k = 0 THEN t1 ELSE Add(sum[k - 1], traverse(node.children[k]))
    IN  sum[Len(node.children)]

(***************************************************************************)
(* The functions of the "functional programming style" section. A Python   *)
(* function that is handed over as an argument is a function value here,   *)
(* defined on the values it is applied to.                                 *)
(***************************************************************************)
\* mutant: the component set is kept whole
remove_no_component(component_set) == component_set

remove_last_component_if_longer_than_one(component_set) ==
    IF Len(component_set) # 1 THEN SubSeq(component_set, 1, Len(component_set) - 1)
    ELSE component_set

calculate_component_set(t, sedge) == t.arms[sedge.name]

cartesian(c1, c2) ==
    [k \in 1..(Len(c1) * Len(c2)) |-> <<c1[((k - 1) \div Len(c2)) + 1], c2[((k - 1) % Len(c2)) + 1]>>]

reduce(f, l) ==
    IF Len(l) = 0 THEN << >>
    ELSE LET x0[k \in 1..Len(l)] == IF k = 1 THEN l[1] ELSE f[x0[k - 1], l[k]]
         IN  x0[Len(l)]

union(a, b) == a \o b

\* union as it is handed to reduce: a function on pairs of lists of components
union_ == [a \in Seq(Seq(Int)), b \in Seq(Seq(Int)) |-> union(a, b)]

size(a) == Len(a)

\* the elements of l whose flag is set, in the order of l
RECURSIVE Keep(_, _)
Keep(l, flags) ==
    IF l = << >> THEN << >>
    ELSE (IF Head(flags) THEN <<Head(l)>> ELSE << >>) \o Keep(Tail(l), Tail(flags))

\* count starts at -1: a value above it starts the list anew, a value equal to it is
\* appended, so that the elements of the greatest value are kept if that is -1 or more
argmax(l, f) ==
    LET c == [k \in DOMAIN l |-> f[l[k]]]
    IN  Keep(l, [k \in DOMAIN l |-> c[k] >= -1 /\ \A j \in DOMAIN l : c[j] <= c[k]])

argmin(l, f) ==
    LET c == [k \in DOMAIN l |-> f[l[k]]]
    IN  Keep(l, [k \in DOMAIN l |-> \A j \in DOMAIN l : c[k] <= c[j]])

filter_(f, l) == Keep(l, [k \in DOMAIN l |-> f[l[k]]])

get_ancestor_edge(t, c) == t.ancestor_edges[NameKey(c)]

is_anti_s_edge(t, ancestor_edge) == t.edge_types[ancestor_edge.name] = "anti"
is_full_s_edge(t, ancestor_edge) == t.edge_types[ancestor_edge.name] = "full"
is_partial_s_edge(t, ancestor_edge) == t.edge_types[ancestor_edge.name] = "partial"
is_none_edge(t, ancestor_edge) == t.edge_types[ancestor_edge.name] = "none"

\* sorted(list(S)) of a set of components
RECURSIVE SortedList(_)
SortedList(S) ==
    IF S = {} THEN << >>
    ELSE LET x == CHOOSE y \in S : \A z \in S \ {y} : LexLess(y, z)
         IN  <<x>> \o SortedList(S \ {x})

cut(a, b) == SortedList(Range(a) \cap Range(b))

symm(a, b) == SortedList((Range(a) \ Range(b)) \cup (Range(b) \ Range(a)))

map1(f, l) == [k \in DOMAIN l |-> f[l[k]]]

map2(f, l) == [k \in DOMAIN l |-> f[l[k][1], l[k][2]]]

\* the components that occur in the arms of a component set
ComponentsOf(arms) == UNION {Range(arms[k]) : k \in DOMAIN arms}

\* what stands for the KeyError of get_ancestor_edge: no vote holds a negative leaf index
KeyError == <<(<<0 - 2>>)>>

\* the dict of t has no entry for one of the components of the arms: the lookup raises
KeyMissing(t, arms) ==
    \E component \in ComponentsOf(arms) : NameKey(component) \notin DOMAIN t.ancestor_edges

filter_components_from_arms(cond, arms) ==
    LET filtered == [k \in DOMAIN arms |-> filter_(cond, arms[k])]
    IN  Keep(filtered, [k \in DOMAIN arms |-> filtered[k] # << >>])

(***************************************************************************)
(* The votes of one s-edge                                                 *)
(***************************************************************************)
\* mutant: a component takes part only if its edge is partial in the first tree
algo5_partial_anti_cond(t1, t2, component) ==
    LET ancestor_edge1 == get_ancestor_edge(t1, component)
        ancestor_edge2 == get_ancestor_edge(t2, component)
    IN  is_partial_s_edge(t1, ancestor_edge1) /\ is_anti_s_edge(t2, ancestor_edge2)

algo5_partial_partial_cond(t1, t2, component) ==
    LET ancestor_edge1 == get_ancestor_edge(t1, component)
        ancestor_edge2 == get_ancestor_edge(t2, component)
        partial1 == is_partial_s_edge(t1, ancestor_edge1)
        partial2 == is_partial_s_edge(t2, ancestor_edge2)
        anti1 == is_anti_s_edge(t1, ancestor_edge1)
        anti2 == is_anti_s_edge(t2, ancestor_edge2)
    IN  (partial1 /\ anti2) \/ (anti1 /\ partial2)

\* mutant: the rarest vote wins
algo1_argmin(sedge, t1, t2) ==
    LET c1 == calculate_component_set(t1, sedge)
        c2 == calculate_component_set(t2, sedge)
        c12 == cartesian(c1, c2)
        voting_map == map2([p \in Range(c12) |-> cut(p[1], p[2])], c12)
                          \o map2([p \in Range(c12) |-> symm(p[1], p[2])], c12)
        m == argmin(voting_map, [x \in Range(voting_map) |-> countOf(voting_map, x)])
        r == argmin(m, [x \in Range(m) |-> size(x)])
    IN  reduce(union_, r)

\* mutant: every most frequent vote wins, whatever its size
algo1_any_size(sedge, t1, t2) ==
    LET c1 == calculate_component_set(t1, sedge)
        c2 == calculate_component_set(t2, sedge)
        c12 == cartesian(c1, c2)
        voting_map == map2([p \in Range(c12) |-> cut(p[1], p[2])], c12)
                          \o map2([p \in Range(c12) |-> symm(p[1], p[2])], c12)
        m == argmax(voting_map, [x \in Range(voting_map) |-> countOf(voting_map, x)])
    IN  reduce(union_, m)

algo1(sedge, t1, t2) ==
    LET c1 == calculate_component_set(t1, sedge)
        c2 == calculate_component_set(t2, sedge)
        c12 == cartesian(c1, c2)
        intersections == map2([p \in Range(c12) |-> cut(p[1], p[2])], c12)
        symmetric_differences == map2([p \in Range(c12) |-> symm(p[1], p[2])], c12)
        voting_map == intersections \o symmetric_differences
        m == argmax(voting_map, [x \in Range(voting_map) |-> countOf(voting_map, x)])
        r == argmin(m, [x \in Range(m) |-> size(x)])
        rr == reduce(union_, r)
    IN  rr

case_full_full(sedge, t1, t2) == algo1(sedge, t1, t2)

case_partial_partial(sedge, t1, t2) ==
    LET c1 == calculate_component_set(t1, sedge)
        c2 == calculate_component_set(t2, sedge)
        cf1 == filter_components_from_arms(
                   [x \in ComponentsOf(c1) |-> algo5_partial_partial_cond(t1, t2, x)], c1)
        cf2 == filter_components_from_arms(
                   [x \in ComponentsOf(c2) |-> algo5_partial_partial_cond(t2, t1, x)], c2)
        cff1 == filter_([x \in Range(cf1) |-> Len(x) # 0], cf1)
        cff2 == filter_([x \in Range(cf2) |-> Len(x) # 0], cf2)
        c12 == cartesian(cff1, cff2)
        intersections == map2([p \in Range(c12) |-> cut(p[1], p[2])], c12)
        symmetric_differences == map2([p \in Range(c12) |-> symm(p[1], p[2])], c12)
        voting_map == intersections \o symmetric_differences
        voting_map_filtered == filter_([x \in Range(voting_map) |-> x # << >>], voting_map)
        m == argmax(voting_map_filtered,
                    [x \in Range(voting_map_filtered) |-> countOf(voting_map_filtered, x)])
        m2 == argmin(m, [x \in Range(m) |-> size(x)])
        c == map1([x \in Range(m2) |-> remove_last_component_if_longer_than_one(x)], m2)
    IN  IF KeyMissing(t1, c1) \/ KeyMissing(t2, c1) \/ KeyMissing(t2, c2) \/ KeyMissing(t1, c2)
        THEN KeyError
        ELSE reduce(union_, c)

algo5_partial_none_only_partial(t1, component) ==
    is_partial_s_edge(t1, get_ancestor_edge(t1, component))

algo5_partial_none_only_anti_sedge(t1, component) ==
    is_anti_s_edge(t1, get_ancestor_edge(t1, component))

case_partial_none(sedge, t1, t2) ==
    LET c1 == calculate_component_set(t1, sedge)
        cf1_anti_s_edge ==
            filter_components_from_arms(
                [x \in ComponentsOf(c1) |-> algo5_partial_none_only_anti_sedge(t1, x)], c1)
        cf1_partial_s_edge ==
            filter_components_from_arms(
                [x \in ComponentsOf(c1) |-> algo5_partial_none_only_partial(t1, x)], c1)
        combined == <<reduce(union_, cf1_partial_s_edge)>> \o cf1_anti_s_edge
        cf1 == argmin(combined, [x \in Range(combined) |-> size(x)])
        c == map1([x \in Range(cf1) |-> remove_last_component_if_longer_than_one(x)], cf1)
    IN  IF KeyMissing(t1, c1) THEN KeyError ELSE reduce(union_, c)

\* what stands for the exception "We forgot one case": no vote holds a negative leaf index
WeForgotOneCase == <<(<<0 - 1>>)>>

\* mutant: the six cases that are named, without the two that take a full edge as it comes
algorithm_5_named_cases(sedge, t1, t2) ==
    IF is_full_s_edge(t1, sedge) /\ is_full_s_edge(t2, sedge) THEN case_full_full(sedge, t1, t2)
    ELSE IF is_full_s_edge(t1, sedge) /\ is_partial_s_edge(t2, sedge) THEN case_full_full(sedge, t1, t2)
    ELSE IF is_partial_s_edge(t1, sedge) /\ is_full_s_edge(t2, sedge) THEN case_full_full(sedge, t2, t1)
    ELSE IF is_partial_s_edge(t1, sedge) /\ is_partial_s_edge(t2, sedge)
    THEN case_partial_partial(sedge, t1, t2)
    ELSE IF is_partial_s_edge(t1, sedge) /\ is_none_edge(t2, sedge) THEN case_partial_none(sedge, t1, t2)
    ELSE IF is_none_edge(t1, sedge) /\ is_partial_s_edge(t2, sedge) THEN case_partial_none(sedge, t2, t1)
    ELSE WeForgotOneCase

algorithm_5_for_sedge(sedge, t1, t2) ==
    IF is_full_s_edge(t1, sedge) /\ is_full_s_edge(t2, sedge) THEN case_full_full(sedge, t1, t2)
    ELSE IF is_full_s_edge(t1, sedge) /\ is_partial_s_edge(t2, sedge) THEN case_full_full(sedge, t1, t2)
    ELSE IF is_partial_s_edge(t1, sedge) /\ is_full_s_edge(t2, sedge) THEN case_full_full(sedge, t2, t1)
    ELSE IF is_partial_s_edge(t1, sedge) /\ is_partial_s_edge(t2, sedge)
    THEN case_partial_partial(sedge, t1, t2)
    ELSE IF is_partial_s_edge(t1, sedge) /\ is_none_edge(t2, sedge) THEN case_partial_none(sedge, t1, t2)
    ELSE IF is_none_edge(t1, sedge) /\ is_partial_s_edge(t2, sedge) THEN case_partial_none(sedge, t2, t1)
    ELSE IF is_full_s_edge(t1, sedge) THEN case_full_full(sedge, t1, t2)
    ELSE IF is_full_s_edge(t2, sedge) THEN case_full_full(sedge, t1, t2)
    ELSE WeForgotOneCase

\* list(d.values()) of the dict that is filled by name from both lists
merge_sedges(edge_set_one, edge_set_two) ==
    LET es == edge_set_one \o edge_set_two
        lastOf(k) == CHOOSE j \in DOMAIN es :
                        /\ es[j].name = es[k].name
                        /\ \A i \in DOMAIN es : es[i].name = es[k].name => i <= j
    IN  Keep([k \in DOMAIN es |-> es[lastOf(k)]],
             [k \in DOMAIN es |-> \A j \in 1..(k - 1) : es[j].name # es[k].name])

\* a set of small integers is read in rising order (the lines json_list has parsed)
RECURSIVE RisingList(_)
RisingList(S) ==
    IF S = {} THEN << >> ELSE LET x == MinOf(S) IN <<x>> \o RisingList(S \ {x})

(***************************************************************************)
(* list(set(...)) of leaf indices, line 535. The order of the list is the  *)
(* order of the slots of the set's hash table. The hash of an index is the *)
(* index. A table is the sequence of its slots, each the set of the keys   *)
(* it holds, none or one; it has 8 slots at first, and when a key has come in and five    *)
(* times the number of keys is not below three times the mask, the keys    *)
(* move to the smallest table of 8, 16, 32, ... slots that has more than   *)
(* four times as many slots as keys, in the order of their slots.          *)
(***************************************************************************)
NoKey == {}

\* the slot the search for key ends at: from slot i the next 9 slots are looked at as
\* well if the table has them, then perturb loses 5 bits and i = (i * 5 + 1 + perturb) & mask
RECURSIVE set_lookkey(_, _, _, _, _)
set_lookkey(table, key, i, perturb, probe) ==
    LET mask == Len(table) - 1
        probes == IF i + 9 <= mask THEN 9 ELSE 0
        shifted == perturb \div 32
    IN  IF table[i + probe + 1] \in {NoKey, {key}} THEN i + probe
        ELSE IF probe < probes THEN set_lookkey(table, key, i, perturb, probe + 1)
        ELSE set_lookkey(table, key, (i * 5 + 1 + shifted) % (mask + 1), shifted, 0)

set_insert(table, key) ==
    [table EXCEPT ![set_lookkey(table, key, key % Len(table), key, 0) + 1] = {key}]

RECURSIVE set_insert_all(_, _)
set_insert_all(table, keys) ==
    IF keys = << >> THEN table ELSE set_insert_all(set_insert(table, Head(keys)), Tail(keys))

\* the keys of a table in the order of their slots: list(set)
IsKey(entry) == entry # NoKey
list_of(table) ==
    LET used == SelectSeq(table, IsKey) IN [k \in DOMAIN used |-> CHOOSE key \in used[k] : TRUE]

RECURSIVE set_table_size(_, _)
set_table_size(newsize, minused) ==
    IF newsize <= minused THEN set_table_size(2 * newsize, minused) ELSE newsize

set_table_resize(table) ==
    set_insert_all([k \in 1..set_table_size(8, 4 * Len(list_of(table))) |-> NoKey], list_of(table))

set_add_key(table, key) ==
    LET added == set_insert(table, key)
    IN  IF added # table /\ Len(list_of(added)) * 5 >= (Len(table) - 1) * 3
        THEN set_table_resize(added)
        ELSE added

\* set(keys): one key after the other is added; a key the table holds is found in it
RECURSIVE set_update(_, _)
set_update(table, keys) ==
    IF keys = << >> THEN table
    ELSE IF {Head(keys)} \in Range(table) THEN set_update(table, Tail(keys))
    ELSE set_update(set_add_key(table, Head(keys)), Tail(keys))

jumping_indices(jumping_taxas) == list_of(set_update([k \in 1..8 |-> NoKey], Flatten(jumping_taxas)))

decode_highList_one_tree(high_list, sorted_nodes) ==
    [k \in DOMAIN high_list |-> sorted_nodes[high_list[k] + 1]]

\* mutant: the loop goes on while 3 leaves are left
goes_on_to_three(decoded_list, sorted_nodes) ==
    Len(decoded_list) > 0 /\ Len(sorted_nodes) - Len(decoded_list) > 2

\* the stop condition of the pruning loop, negated: the loop goes on
goes_on(decoded_list, sorted_nodes) ==
    Len(decoded_list) > 0 /\ Len(sorted_nodes) - Len(decoded_list) > 3

(***************************************************************************)
(* The inputs of algorithm_5: pairs of newick strings over the same        *)
(* leaves.                                                                 *)
(*   IdentityPairs: a tree and itself, every shape with up to MaxLeaves    *)
(*     leaves, written every way TreeOf knows.                             *)
(*   ReorderPairs: a tree and the same tree with the children of every     *)
(*     node reversed, or rotated by one.                                   *)
(*   CrossPairs: a fully resolved first tree whose leaves come in the      *)
(*     order of Taxa (sorted_nodes is the leaf order of the first tree, so *)
(*     that every resolved first tree is one of these with its leaves      *)
(*     renamed) and any second tree, no lengths given.                     *)
(*   SwappedPairs: the pairs of CrossPairs with their trees exchanged.     *)
(*   SimpleExchange, LongWalk, NestedAgainstStar, TripleAgainstStar,       *)
(*     WrappedCherry: five pairs written out.                              *)
(***************************************************************************)
MaxLeaves == 5

LeafCounts == 4..MaxLeaves

RECURSIVE Mirror(_)
Mirror(tree) == [tree EXCEPT !.children = Reverse([k \in DOMAIN tree.children |-> Mirror(tree.children[k])])]

RECURSIVE Rotate(_)
Rotate(tree) ==
    LET kids == [k \in DOMAIN tree.children |-> Rotate(tree.children[k])]
    IN  [tree EXCEPT !.children = IF kids = << >> THEN << >> ELSE Tail(kids) \o <<Head(kids)>>]

RECURSIVE Resolved(_)
Resolved(tree) ==
    IsLeaf(tree) \/ (Len(tree.children) = 2 /\ \A k \in 1..2 : Resolved(tree.children[k]))

\* the leaves come in the order of Taxa
InOrder(tree) == LeafNames(tree) = [k \in 1..Len(LeafNames(tree)) |-> Str(Taxa[k])]

Written == UNION {{TreeOf(sh, p) : sh \in Shapes(1..n), p \in 0..MaxPattern} : n \in LeafCounts}

IdentityPairs == {<<t, t>> : t \in Written}

ReorderPairs == {<<t, Mirror(t)>> : t \in Written} \cup {<<t, Rotate(t)>> : t \in Written}

CrossPairsOf(n) ==
    LET all == Shapes(1..n)
        firsts == {sh \in all : Resolved(sh) /\ InOrder(sh)}
    IN  firsts \X all

CrossPairs == UNION {CrossPairsOf(n) : n \in LeafCounts}

\* the pairs of CrossPairs the other way round: the second tree is the resolved one
SwappedPairs == {<<p[2], p[1]>> : p \in CrossPairs}

Leaf(x) == MkNode(Str(x), NoLen, << >>)
Inner(children) == MkNode(Str(""), NoLen, children)

\* (A,B,(C,D)); and (A,C,(B,D));
SimpleExchange ==
    <<Inner(<<Leaf("A"), Leaf("B"), Inner(<<Leaf("C"), Leaf("D")>>)>>),
      Inner(<<Leaf("A"), Leaf("C"), Inner(<<Leaf("B"), Leaf("D")>>)>>)>>

\* (A,(B,(C,D)),(E,F)); and (E,((((A,B),C),D),F));
LongWalk ==
    <<Inner(<<Leaf("A"), Inner(<<Leaf("B"), Inner(<<Leaf("C"), Leaf("D")>>)>>),
              Inner(<<Leaf("E"), Leaf("F")>>)>>),
      Inner(<<Leaf("E"),
              Inner(<<Inner(<<Inner(<<Inner(<<Leaf("A"), Leaf("B")>>), Leaf("C")>>), Leaf("D")>>),
                      Leaf("F")>>)>>)>>

\* (A,(C,(E,D)),B); and (D,C,B,A,E);
NestedAgainstStar ==
    <<Inner(<<Leaf("A"), Inner(<<Leaf("C"), Inner(<<Leaf("E"), Leaf("D")>>)>>), Leaf("B")>>),
      Inner(<<Leaf("D"), Leaf("C"), Leaf("B"), Leaf("A"), Leaf("E")>>)>>

\* (D,(C,B,A),E); and (E,D,B,C,A);
TripleAgainstStar ==
    <<Inner(<<Leaf("D"), Inner(<<Leaf("C"), Leaf("B"), Leaf("A")>>), Leaf("E")>>),
      Inner(<<Leaf("E"), Leaf("D"), Leaf("B"), Leaf("C"), Leaf("A")>>)>>

\* (((A,B):1):0,(C,D)); twice: the cherry (A,B) hangs from a node that has no other child
WrappedCherry ==
    LET wrapped == MkNode(Str(""), 0, <<MkNode(Str(""), 2, <<Leaf("A"), Leaf("B")>>)>>)
        tree == Inner(<<wrapped, Inner(<<Leaf("C"), Leaf("D")>>)>>)
    IN  <<tree, tree>>

\* (((D,B),(H,E)),(F,I,C),(A,G)); and (((I,A,H),F),((B,D),G,(E,C))); : nine leaves, a vote
\* for H, C, A and G, the indices 2, 6, 7 and 8, which list(set(...)) returns as 8, 2, 6, 7
NineLeaves ==
    <<Inner(<<Inner(<<Inner(<<Leaf("D"), Leaf("B")>>), Inner(<<Leaf("H"), Leaf("E")>>)>>),
              Inner(<<Leaf("F"), Leaf("I"), Leaf("C")>>),
              Inner(<<Leaf("A"), Leaf("G")>>)>>),
      Inner(<<Inner(<<Inner(<<Leaf("I"), Leaf("A"), Leaf("H")>>), Leaf("F")>>),
              Inner(<<Inner(<<Leaf("B"), Leaf("D")>>), Leaf("G"),
                      Inner(<<Leaf("E"), Leaf("C")>>)>>)>>)>>

\* pairs that end the call with an exception:
\*   ((((A,B),(C,D)))); twice, and ((A,B,C),D,E); with (((A,D,(E,C,B)))); : a tree in two
\*     pairs of parentheses too many, a KeyError of the synthesis in the first call
\*   ((A,B,C),D,E); and (C,(((E,A),D,B))); : C is voted out, and what is left of the second
\*     tree is such a tree, a KeyError in the second call
\*   (A,B,(C,D)); and (A,B,(C,E)); : a leaf the first tree lacks, ValueError
\*   (A,B,C); and (A,B); : a leaf the second tree lacks keeps its index for a name in the
\*     trees between, and Node.from_dict raises ValueError
\*   A; twice: a single node, the KeyError of json_list
\*   (A); twice: a leaf is left as the first tree, the KeyError of line 521
RaisingPairs ==
    LET cherries == Inner(<<Inner(<<Leaf("A"), Leaf("B")>>), Inner(<<Leaf("C"), Leaf("D")>>)>>)
        first == Inner(<<Inner(<<Leaf("A"), Leaf("B"), Leaf("C")>>), Leaf("D"), Leaf("E")>>)
    IN  {<<Inner(<<Inner(<<Inner(<<cherries>>)>>)>>), Inner(<<Inner(<<Inner(<<cherries>>)>>)>>)>>,
         <<first, Inner(<<Inner(<<Inner(<<Leaf("A"), Leaf("D"),
                                          Inner(<<Leaf("E"), Leaf("C"), Leaf("B")>>)>>)>>)>>)>>,
         <<first, Inner(<<Leaf("C"), Inner(<<Inner(<<Inner(<<Leaf("E"), Leaf("A")>>),
                                                      Leaf("D"), Leaf("B")>>)>>)>>)>>,
         <<Inner(<<Leaf("A"), Leaf("B"), Inner(<<Leaf("C"), Leaf("D")>>)>>),
           Inner(<<Leaf("A"), Leaf("B"), Inner(<<Leaf("C"), Leaf("E")>>)>>)>>,
         <<Inner(<<Leaf("A"), Leaf("B"), Leaf("C")>>), Inner(<<Leaf("A"), Leaf("B")>>)>>,
         <<Leaf("A"), Leaf("A")>>,
         <<Inner(<<Leaf("A")>>), Inner(<<Leaf("A")>>)>>}

NewickPairs ==
    IdentityPairs \cup ReorderPairs \cup CrossPairs \cup SwappedPairs
        \cup {SimpleExchange, LongWalk, NestedAgainstStar, TripleAgainstStar, WrappedCherry,
              NineLeaves}
        \cup RaisingPairs

(***************************************************************************)
(* SpecAlgo: algorithm_5 on a pair of newick strings. alg holds the locals *)
(* of the call: t1 and t2 (as it1 and it2, the trees they are the         *)
(* traversals of), sorted_nodes, the s-edges the for loop has still        *)
(* to visit (queue: the rest of the list of the first round, in its order; *)
(* pending: the rest of the set of a later round, which is read in any     *)
(* order), decoded_list and global_decoded_result_list. The latter is only *)
(* ever appended to and read through set(): it is held as a set.           *)
(* rounds, leaf_count, input and verdicts are not in the code: they count   *)
(* the passes of the while loop and remember the first leaf count, the     *)
(* argument, and every decoded_list with the pass it was computed in.      *)
(* raised and exc tell that the call was left by an exception, and which.  *)
(***************************************************************************)
InitAlgo ==
    /\ newick_list \in NewickPairs
    /\ alg = IdleAlg
    /\ pc = "call"
    /\ json_treelist = << >>
    /\ split = << >>
    /\ count = 0
    /\ self = NewTreere
    /\ not_listoftrees = TRUE
    /\ splices = << >>
    /\ jl = IdleLines
    /\ nexus = IdleNexus
    /\ hl = IdleHighlights

synth == <<json_treelist, split, count, self, not_listoftrees, splices, jl, nexus, hl>>

\* lines 513-523: the first intermediate trees and the list of their s-edges
FirstRound(d, input) ==
    [IdleAlg EXCEPT !.it1 = d.it1, !.it2 = d.it2, !.sorted_nodes = d.sorted_nodes,
                    !.queue = merge_sedges(traverse(d.it1).all_sedges, traverse(d.it2).all_sedges),
                    !.rounds = 1, !.leaf_count = Len(d.sorted_nodes), !.input = input]

\* an exception of delete_tree_leaves_for_coloring_newick ends algorithm_5 where it stands;
\* at is the function the exception came out of
Failed(a, exc) ==
    [a EXCEPT !.raised = TRUE, !.exc = exc, !.at = "delete_tree_leaves_for_coloring_newick"]

Called(d) ==
    IF d.raised # ""
    THEN alg' = Failed([alg EXCEPT !.input = newick_list], d.raised)
         /\ newick_list' = newick_list /\ pc' = "raised"
    ELSE alg' = FirstRound(d, newick_list) /\ newick_list' = d.newick_list /\ pc' = "round"

Call ==
    /\ pc = "call"
    /\ Called(delete_tree_leaves_for_coloring_newick(<< >>, newick_list))
    /\ UNCHANGED synth

\* lines 535-539: the vote of an s-edge is decoded and appended
Voted(a, s_edge, jumping_taxas) ==
    IF jumping_taxas \in {WeForgotOneCase, KeyError}
    THEN [a EXCEPT !.raised = TRUE, !.queue = << >>, !.pending = {},
                   !.exc = IF jumping_taxas = KeyError THEN "KeyError" ELSE "Exception",
                   !.at = "algorithm_5_for_sedge"]
    ELSE [a EXCEPT !.decoded_list =
                       decode_highList_one_tree(jumping_indices(jumping_taxas), a.sorted_nodes),
                   !.global_decoded_result_list =
                       @ \cup Range(decode_highList_one_tree(jumping_indices(jumping_taxas),
                                                             a.sorted_nodes)),
                   !.queue = IF @ = << >> THEN @ ELSE Tail(@),
                   !.pending = @ \ {s_edge},
                   !.verdicts = Append(@, [round |-> a.rounds,
                                           taxa |-> decode_highList_one_tree(
                                                        jumping_indices(jumping_taxas),
                                                        a.sorted_nodes)])]

\* lines 529-539 for one s-edge
VoteOf(s_edge) ==
    /\ alg' = Voted(alg, s_edge,
                    algorithm_5_for_sedge(s_edge, traverse(alg.it1), traverse(alg.it2)))
    /\ pc' = IF alg'.raised THEN "raised" ELSE "round"

Vote ==
    /\ pc = "round"
    /\ \/ alg.queue # << >> /\ VoteOf(Head(alg.queue))
       \/ alg.queue = << >> /\ \E s_edge \in alg.pending : VoteOf(s_edge)
    /\ UNCHANGED <<newick_list, synth>>

\* mutant: the result is begun anew with every pass of the loop
NextRoundForgets(a, d) ==
    [a EXCEPT !.it1 = d.it1, !.it2 = d.it2, !.sorted_nodes = d.sorted_nodes,
              !.pending = Range(traverse(d.it1).all_sedges \o traverse(d.it2).all_sedges),
              !.decoded_list = << >>,
              !.global_decoded_result_list = {},
              !.rounds = @ + 1]

\* mutant: the names of the leaves are still read from the list of the pass before
NextRoundStale(a, d) ==
    [a EXCEPT !.it1 = d.it1, !.it2 = d.it2,
              !.pending = Range(traverse(d.it1).all_sedges \o traverse(d.it2).all_sedges),
              !.decoded_list = << >>,
              !.rounds = @ + 1]

\* lines 544-551: the next intermediate trees and the set of their s-edges
NextRound(a, d) ==
    [a EXCEPT !.it1 = d.it1, !.it2 = d.it2, !.sorted_nodes = d.sorted_nodes,
              !.pending = Range(traverse(d.it1).all_sedges \o traverse(d.it2).all_sedges),
              !.decoded_list = << >>,
              !.rounds = @ + 1]

Pruned(d) ==
    IF d.raised # ""
    THEN alg' = Failed(alg, d.raised) /\ newick_list' = newick_list /\ pc' = "raised"
    ELSE alg' = NextRound(alg, d) /\ newick_list' = d.newick_list /\ pc' = "round"

\* lines 542-551: the leaves of the last vote are deleted and the loop goes round
Prune ==
    /\ pc = "round"
    /\ alg.queue = << >> /\ alg.pending = {}
    /\ goes_on(alg.decoded_list, alg.sorted_nodes)
    /\ Pruned(delete_tree_leaves_for_coloring_newick(alg.decoded_list, newick_list))
    /\ UNCHANGED synth

\* lines 553-556: break, and the return of list(set(global_decoded_result_list))
Return ==
    /\ pc = "round"
    /\ alg.queue = << >> /\ alg.pending = {}
    /\ ~goes_on(alg.decoded_list, alg.sorted_nodes)
    /\ pc' = "returned"
    /\ UNCHANGED <<alg, newick_list, synth>>

NextAlgo == Call \/ Vote \/ Prune \/ Return

SpecAlgo == InitAlgo /\ [][NextAlgo]_vars

(***************************************************************************)
(* treeMain.py: the two distances handle_uploaded_file computes for every  *)
(* pair of neighbours from the list input_manager returned, before the     *)
(* leaves are voted. A float that is a quotient of two counts is the pair  *)
(* of the counts.                                                          *)
(***************************************************************************)
\* treeMain.traverse: an entry (name, name of the child) for every child that has children,
\* behind the entries of the tree below the child
RECURSIVE treeMain_traverse(_)
treeMain_traverse(node) ==
    Flatten([k \in DOMAIN node.children |->
                IF IsLeaf(node.children[k]) THEN << >>
                ELSE treeMain_traverse(node.children[k])
                         \o <<(<<node.name, node.children[k].name>>)>>])

\* the trees 0, 2, 3 and 5 of the six trees of a pair; two trees without an inner branch
\* divide by zero
compute_robinson_foulds(six) ==
    LET countInternalBranchesOriginalTree1 == Len(treeMain_traverse(six[1]))
        countInternalBranchesConsensusTree1 == Len(treeMain_traverse(six[3]))
        countInternalBranchesOriginalTree2 == Len(treeMain_traverse(six[6]))
        countInternalBranchesConsensusTree2 == Len(treeMain_traverse(six[4]))
        distance == (countInternalBranchesOriginalTree1 - countInternalBranchesConsensusTree1)
                        + (countInternalBranchesOriginalTree2 - countInternalBranchesConsensusTree2)
        total == countInternalBranchesOriginalTree1 + countInternalBranchesOriginalTree2
    IN  [absolute |-> distance, relative |-> <<distance, total>>,
         raised |-> IF total = 0 THEN "ZeroDivisionError" ELSE ""]

\* for i in range(0, len(json_consensus_tree_list) - 5, 5), from i on
RECURSIVE rfd_from(_, _)
rfd_from(list, i) ==
    IF i >= Len(list) - 5 THEN [distance_list |-> << >>, raised |-> ""]
    ELSE LET d == compute_robinson_foulds(SubSeq(list, i + 1, i + 6))
             rest == rfd_from(list, i + 5)
         IN  IF d.raised # "" THEN [distance_list |-> << >>, raised |-> d.raised]
             ELSE IF rest.raised # "" THEN rest
             ELSE [distance_list |->
                       <<[tree |-> i \div 5, consensus_index |-> i,
                          robinson_foulds |-> [absolute |-> d.absolute, relative |-> d.relative]]>>
                           \o rest.distance_list,
                   raised |-> ""]

calculate_rfd_along_tracjectories(json_consensus_tree_list) == rfd_from(json_consensus_tree_list, 0)

\* treeList[key] = value
Put(treeList, key, value) ==
    [k \in DOMAIN treeList \cup {key} |-> IF k = key THEN value ELSE treeList[k]]

\* the map from str(name) to the length, of every node with children that is reached through
\* nodes with children: the children first, so that of two nodes of one name the upper stays
RECURSIVE traverse_for_construcuting_edge_Length_map(_, _)
RECURSIVE edge_Length_map_of_children(_, _, _)
edge_Length_map_of_children(children, k, treeList) ==
    IF k > Len(children) THEN treeList
    ELSE edge_Length_map_of_children(
             children, k + 1,
             IF IsLeaf(children[k]) THEN treeList
             ELSE traverse_for_construcuting_edge_Length_map(children[k], treeList))

traverse_for_construcuting_edge_Length_map(node, treeList) ==
    IF IsLeaf(node) THEN treeList
    ELSE Put(edge_Length_map_of_children(node.children, 1, treeList), NameText(node.name),
             node.length)

RECURSIVE SumOf(_, _)
SumOf(f, S) == IF S = {} THEN 0 ELSE LET x == CHOOSE y \in S : TRUE IN f[x] + SumOf(f, S \ {x})

\* an edge one of the two trees does not have counts with length 0 there
calculate_weighted_robinson_foulds_distance(first_tree, second_tree) ==
    LET edge_length_map_first == traverse_for_construcuting_edge_Length_map(first_tree, EmptyDict)
        edge_length_map_second == traverse_for_construcuting_edge_Length_map(second_tree, EmptyDict)
        edges == DOMAIN edge_length_map_first \cup DOMAIN edge_length_map_second
        first(e) == IF e \in DOMAIN edge_length_map_first THEN edge_length_map_first[e] ELSE 0
        second(e) == IF e \in DOMAIN edge_length_map_second THEN edge_length_map_second[e] ELSE 0
        edge_length_map_summed ==
            [e \in edges |-> IF second(e) >= first(e) THEN second(e) - first(e)
                             ELSE first(e) - second(e)]
    IN  SumOf(edge_length_map_summed, edges)

calculate_weighted_robinson_foulds_distance_along_trajectory(json_consensus_tree_list) ==
    LET rounds == IF Len(json_consensus_tree_list) <= 5 THEN 0
                  ELSE ((Len(json_consensus_tree_list) - 6) \div 5) + 1
    IN  [k \in 1..rounds |->
            calculate_weighted_robinson_foulds_distance(json_consensus_tree_list[5 * (k - 1) + 1],
                                                        json_consensus_tree_list[5 * (k - 1) + 6])]

(***************************************************************************)
(* SpecPairs: handle_uploaded_file on a list of trees. The trees between   *)
(* the input trees are synthesized for the whole list, the two distances   *)
(* are computed for every pair, and then                                   *)
(* find_to_be_highlighted_leaves_delete calls algorithm_5 for one pair of  *)
(* neighbours after the other and collects what it returns. The local      *)
(* variables of a call of algorithm_5 are what the call before left of     *)
(* them until the call assigns them. An exception of any of the steps ends *)
(* the run (pc = "raised"): none of them is caught. A tree of the list may *)
(* name a leaf twice and leave another out: nothing compares the leaves of *)
(* the trees of a list, and as long as no tree has a leaf the first tree   *)
(* lacks the synthesis goes through and the pairs come to the vote.        *)
(***************************************************************************)
MaxPairs == 2

\* five trees over the same five leaves
PairTrees ==
    {Inner(<<Inner(<<Inner(<<Inner(<<Leaf("A"), Leaf("B")>>), Leaf("C")>>), Leaf("D")>>), Leaf("E")>>),
     Inner(<<Inner(<<Inner(<<Inner(<<Leaf("A"), Leaf("C")>>), Leaf("B")>>), Leaf("E")>>), Leaf("D")>>),
     Inner(<<Leaf("E"), Leaf("A"), Inner(<<Leaf("C"), Inner(<<Leaf("D"), Leaf("B")>>)>>)>>),
     Inner(<<Inner(<<Leaf("D"), Leaf("A")>>), Inner(<<Leaf("B"), Leaf("C")>>), Leaf("E")>>),
     Inner(<<Leaf("A"), Leaf("B"), Leaf("C"), Leaf("D"), Leaf("E")>>)}

\* ((B,B),C,D,E);
Doubled == Inner(<<Inner(<<Leaf("B"), Leaf("B")>>), Leaf("C"), Leaf("D"), Leaf("E")>>)

MissTrees == PairTrees \cup {Doubled}

InitPairs ==
    /\ json_treelist \in UNION {SeqsOver(MissTrees, n + 1) : n \in 1..MaxPairs}
    /\ hl = [IdleHighlights EXCEPT !.newick_string_list = json_treelist]
    /\ split = json_treelist
    /\ count = 0
    /\ self = NewTreere
    /\ not_listoftrees = TRUE
    /\ splices = << >>
    /\ pc = "start"
    /\ newick_list = << >>
    /\ alg = IdleAlg
    /\ jl = IdleLines
    /\ nexus = IdleNexus

\* line 85 of app.py: the distances of the pairs, or the exception of the first pair whose
\* two trees have no inner branch
RobinsonFoulds ==
    /\ pc = "done"
    /\ hl.newick_string_list # << >>
    /\ LET r == calculate_rfd_along_tracjectories(split)
       IN  IF r.raised # ""
           THEN hl' = [hl EXCEPT !.raised = r.raised] /\ pc' = "raised"
           ELSE hl' = [hl EXCEPT !.rfd_list = r.distance_list] /\ pc' = "rfd"
    /\ UNCHANGED <<json_treelist, split, count, self, not_listoftrees, splices, newick_list, alg,
                   jl, nexus>>

\* lines 86-90
WeightedRobinsonFoulds ==
    /\ pc = "rfd"
    /\ hl' = [hl EXCEPT !.weighted_robinson_foulds_list =
                            calculate_weighted_robinson_foulds_distance_along_trajectory(split)]
    /\ pc' = "weighted"
    /\ UNCHANGED <<json_treelist, split, count, self, not_listoftrees, splices, newick_list, alg,
                   jl, nexus>>

\* lines 127-133 of app.py: the pair of the round of the loop that begins at i
pair_of_newick_string(newick_string_list, i) ==
    <<newick_string_list[(i \div 5) + 1], newick_string_list[(i \div 5) + 2]>>

\* lines 94-98 and 124: find_to_be_highlighted_leaves_delete is called
Highlight ==
    /\ pc = "weighted"
    /\ pc' = "pairs"
    /\ UNCHANGED <<json_treelist, split, count, self, not_listoftrees, splices, newick_list, alg,
                   jl, nexus, hl>>

\* lines 126-139: a round of the loop up to the call of algorithm_5
NextPair ==
    /\ pc = "pairs"
    /\ hl.i < Len(split) - 5
    /\ newick_list' = pair_of_newick_string(hl.newick_string_list, hl.i)
    /\ pc' = "call"
    /\ UNCHANGED <<json_treelist, split, count, self, not_listoftrees, splices, alg, jl, nexus, hl>>

\* lines 137-139: what algorithm_5 returned is appended, and the loop goes on
Collect ==
    /\ pc = "returned"
    /\ hl.newick_string_list # << >>
    /\ hl' = [hl EXCEPT !.highlights_every_tree_list = Append(@, alg.global_decoded_result_list),
                        !.i = @ + 5]
    /\ pc' = "pairs"
    /\ UNCHANGED <<json_treelist, split, count, self, not_listoftrees, splices, newick_list, alg,
                   jl, nexus>>

\* lines 141 and 100-109
ReturnHighlights ==
    /\ pc = "pairs"
    /\ hl.i >= Len(split) - 5
    /\ pc' = "highlighted"
    /\ UNCHANGED <<json_treelist, split, count, self, not_listoftrees, splices, newick_list, alg,
                   jl, nexus, hl>>

NextPairs ==
    \/ Start \/ Traverse \/ TraverseRaises \/ Finish
    \/ RobinsonFoulds \/ WeightedRobinsonFoulds
    \/ Highlight \/ NextPair \/ Call \/ Vote \/ Prune \/ Return \/ Collect \/ ReturnHighlights

SpecPairs == InitPairs /\ [][NextPairs]_vars

(***************************************************************************)
(* SpecAnyOrder: the pairs of a list processed on the one instance by one  *)
(* call of tree_traversal for each pair, the pairs taken in any order.     *)
(* The two trees of a call are the trees as the parser returned them, and  *)
(* the lists the calls return are collected by the index of the pair:      *)
(* split[i] is the list returned for pair i, the empty list before the     *)
(* call; count is the number of calls made.                                *)
(***************************************************************************)
InitAnyOrder ==
    /\ json_treelist \in SeqsOver(PairTrees, MaxPairs + 1)
    /\ split = [i \in 1..MaxPairs |-> << >>]
    /\ count = 0
    /\ self = NewTreere
    /\ not_listoftrees = TRUE
    /\ splices = << >>
    /\ pc = "start"
    /\ newick_list = << >>
    /\ alg = IdleAlg
    /\ jl = IdleLines
    /\ nexus = IdleNexus
    /\ hl = IdleHighlights

\* self.tree_traversal([T_i, T_i+1])[0] for a pair that has not been processed
TraversePair ==
    /\ pc = "traverse"
    /\ \E i \in DOMAIN split :
          /\ split[i] = << >>
          /\ LET r == tree_traversal(<<json_treelist[i], json_treelist[i + 1]>>, 0, self, TRUE)
             IN  /\ split' = [split EXCEPT ![i] = r.split]
                 /\ self' = r.self
                 /\ pc' = IF r.raised # "" THEN "raised" ELSE pc
    /\ count' = count + 1
    /\ UNCHANGED <<json_treelist, not_listoftrees, splices, newick_list, alg, jl, nexus, hl>>

NextAnyOrder == Start \/ TraversePair

SpecAnyOrder == InitAnyOrder /\ [][NextAnyOrder]_vars

(***************************************************************************)
(* The newick parser of Treere (parseNode, recurseBuild) and json_list.    *)
(* A Python string is the sequence of its characters here, each a string   *)
(* of length 1. What recurseBuild returns is one of                        *)
(*   a dict without "children"   [kind |-> "leaf", ...]                    *)
(*   a dict with "children"      [kind |-> "inner", ...]                   *)
(*   a list of strings           [kind |-> "list", ...]  (nwString.split)  *)
(* and a call that raises is    [kind |-> "raise", exc |-> the exception]. *)
(* A length is "" or another string (kind "str"), or the float that        *)
(* float() made of a string (kind "float": the digits without the point,   *)
(* and the number of digits behind the point).                             *)
(***************************************************************************)
\* str.find(c): the first position of c counted from 0, -1 when there is none
Find(str, c) ==
    IF \E k \in DOMAIN str : str[k] = c
    THEN (CHOOSE k \in DOMAIN str : str[k] = c /\ \A j \in 1..(k - 1) : str[j] # c) - 1
    ELSE -1

\* str.replace(a, b) for characters a and b
Replace(str, a, b) == [k \in DOMAIN str |-> IF str[k] = a THEN b ELSE str[k]]

\* str.replace(a, "")
RECURSIVE Remove(_, _)
Remove(str, a) ==
    IF str = << >> THEN << >>
    ELSE (IF Head(str) = a THEN << >> ELSE <<Head(str)>>) \o Remove(Tail(str), a)

\* str.split(c): the pieces between the occurrences of c, at least one piece
RECURSIVE StrSplit(_, _)
StrSplit(str, c) ==
    IF Find(str, c) = -1 THEN <<str>>
    ELSE <<SubSeq(str, 1, Find(str, c))>> \o StrSplit(SubSeq(str, Find(str, c) + 2, Len(str)), c)

\* the white space of the texts
Whitespace == {" ", "\n"}

\* str.strip()
RECURSIVE StrStrip(_)
StrStrip(str) ==
    IF str = << >> THEN str
    ELSE IF Head(str) \in Whitespace THEN StrStrip(Tail(str))
    ELSE IF str[Len(str)] \in Whitespace THEN StrStrip(SubSeq(str, 1, Len(str) - 1))
    ELSE str

\* str[k:] with k counted from 0
From(str, k) == SubSeq(str, k + 1, Len(str))

\* str[:k]
UpTo(str, k) == SubSeq(str, 1, k)

Digits == {"1"}

StrLength(str) == [kind |-> "str", str |-> str, digits |-> << >>, behind |-> 0]

\* float(str) of a string of digits with at most one point; every other string (over the
\* characters of the inputs) is a ValueError
IsFloat(str) ==
    /\ \A k \in DOMAIN str : str[k] \in Digits \cup {"."}
    /\ Cardinality({k \in DOMAIN str : str[k] = "."}) <= 1
    /\ \E k \in DOMAIN str : str[k] \in Digits

float(str) ==
    [kind |-> "float", str |-> << >>, digits |-> Remove(str, "."),
     behind |-> IF Find(str, ".") = -1 THEN 0 ELSE Len(str) - Find(str, ".") - 1]

Raise(exc) == [kind |-> "raise", exc |-> exc]
LeafDict(label, dist) == [kind |-> "leaf", name |-> label, length |-> dist]
InnerDict(label, dist, dataArray) ==
    [kind |-> "inner", name |-> label, length |-> dist, children |-> dataArray]
StrList(strs) == [kind |-> "list", strs |-> strs]

(***************************************************************************)
(* parseNode: the loop over the characters. parenCount, processed, index   *)
(* and tree are its locals; `at` is the position of the character.         *)
(***************************************************************************)
RECURSIVE parseLoop(_, _, _, _, _)
parseLoop(nwString, at, parenCount, processed, index) ==
    IF at > Len(nwString) THEN [processed |-> processed, tree |-> << >>]
    ELSE LET char == nwString[at]
             pc1 == IF char = "(" THEN parenCount + 1
                    ELSE IF char = ")" THEN parenCount - 1
                    ELSE parenCount
         IN  IF char = "(" /\ pc1 = 1
             THEN parseLoop(nwString, at + 1, pc1, processed, index)
             ELSE IF char = ")" /\ pc1 = 0
             THEN [processed |-> processed,
                   tree |-> IF index + 2 > Len(nwString) THEN << >> ELSE From(nwString, index + 2)]
             ELSE parseLoop(nwString, at + 1, pc1,
                            processed \o (IF char = "," /\ pc1 # 1 THEN <<"|">> ELSE <<char>>),
                            index + 1)

parseNode(nwString) ==
    LET loop == parseLoop(nwString, 1, 0, << >>, 0)
        split_ == StrSplit(loop.processed, ",")
        data == [k \in DOMAIN split_ |-> Replace(split_[k], "|", ",")]
        t == StrStrip(loop.tree)
    IN  IF Find(t, ":") = -1
        THEN [label |-> Replace(t, ".", "-"), dist |-> << >>, data |-> data]
        ELSE [label |-> Replace(UpTo(t, Find(t, ":")), ".", "-"),
              dist |-> From(t, Find(t, ":") + 1), data |-> data]

(***************************************************************************)
(* recurseBuild. A call whose only item is its own argument calls itself   *)
(* with that argument for ever: Python ends it with a RecursionError.      *)
(***************************************************************************)
\* the first exception the calls for the items raised, or the list of their results
Collected(results) ==
    IF \E k \in DOMAIN results : results[k].kind = "raise"
    THEN results[CHOOSE k \in DOMAIN results :
                     results[k].kind = "raise" /\ \A j \in 1..(k - 1) : results[j].kind # "raise"]
    ELSE [kind |-> "results", all |-> results]

RECURSIVE recurseBuild(_)
recurseBuild(nwString0) ==
    LET nwString == Remove(nwString0, ";")
    IN  IF Find(nwString, "(") = -1
        THEN IF Len(StrSplit(nwString, ",")) = 1
             THEN IF Find(nwString, ":") = -1
                  THEN LeafDict(nwString, StrLength(<< >>))
                  ELSE IF IsFloat(From(nwString, Find(nwString, ":") + 1))
                  THEN LeafDict(Replace(UpTo(nwString, Find(nwString, ":")), ".", "-"),
                                float(From(nwString, Find(nwString, ":") + 1)))
                  ELSE Raise("ValueError")
             ELSE StrList(StrSplit(nwString, ","))
        ELSE LET p == parseNode(nwString)
             IN  IF p.data = <<nwString>> THEN Raise("RecursionError")
                 ELSE LET dataArray == Collected([k \in DOMAIN p.data |-> recurseBuild(p.data[k])])
                      IN  IF dataArray.kind = "raise" THEN dataArray
                          ELSE InnerDict(Replace(p.label, ".", "-"), StrLength(p.dist), dataArray.all)

(***************************************************************************)
(* json_list: one round of its loop over the lines.                        *)
(***************************************************************************)
\* the test of json_list on the position i (from 0) of a line, of n lines
Selected(tr, i, n) == ((i - tr.start - 1) % tr.step = 0) \/ (i = n - 1)

\* result["children"] of what recurseBuild returned, and the collapse of a root with one child
ParsedTree(result) ==
    IF result.kind = "raise" THEN result
    ELSE IF result.kind = "leaf" THEN Raise("KeyError")
    ELSE IF result.kind = "list" THEN Raise("TypeError")
    ELSE IF Len(result.children) = 1 THEN result.children[1]
    ELSE result

\* json_treelist.append(result), or the exception leaves json_list
Appended(result) ==
    IF result.kind = "raise"
    THEN /\ pc' = "raised"
         /\ jl' = [jl EXCEPT !.raised = result.exc]
         /\ UNCHANGED json_treelist
    ELSE /\ pc' = pc
         /\ jl' = [jl EXCEPT !.i = @ + 1]
         /\ json_treelist' = Append(json_treelist, result)

(***************************************************************************)
(* The texts json_list is started on.                                      *)
(*   OneLine: every string of 1 to MaxChars characters of Chars, as the    *)
(*     only line of the text, and some longer lines.                       *)
(*   Numbered: up to MaxLines lines, the k-th a tree whose root has a      *)
(*     length of k digits, read from the start-th line on in steps of      *)
(*     step.                                                               *)
(***************************************************************************)
MaxChars == 4
MaxLines == 7
MaxStart == 3
MaxStep == 4

Chars == {"(", ")", ",", ":", ";", "A", ".", "1"}

RECURSIVE StringsOf(_)
StringsOf(n) ==
    IF n = 0 THEN {<< >>} ELSE {<<c>> \o str : c \in Chars, str \in StringsOf(n - 1)}

LongerLines ==
    {<<"(", "A", ",", "A", ")", ";">>,
     <<"(", "A", ",", "(", "A", ",", "A", ")", ")", ";">>,
     <<"(", "A", ".", "1", ":", "1", ".", "1", ",", "A", ".", "1", ")", "A", ".", ":", "1", ";">>,
     <<"(", "(", "A", ",", "A", ")", ")", ";">>,
     <<"(", "A", ",", "(", "A", ",", "A", ")", ";">>}

OneLine == {<<str>> : str \in (UNION {StringsOf(n) : n \in 1..MaxChars}) \cup LongerLines}

NumberedLine(k) == <<"(", "A", ",", "A", ")", ":">> \o [j \in 1..k |-> "1"]

Numbered == {[k \in 1..n |-> NumberedLine(k)] : n \in 1..MaxLines}

(***************************************************************************)
(* SpecDecode: Treere.json_list on the lines of a text.                    *)
(***************************************************************************)
InitDecode ==
    /\ \/ /\ jl \in {[lines |-> text, i |-> 0, raised |-> ""] : text \in OneLine}
          /\ self = NewTreere
       \/ \E start \in 1..MaxStart, step \in 1..MaxStep :
             /\ jl \in {[lines |-> text, i |-> start - 1, raised |-> ""] :
                          text \in {t \in Numbered : Len(t) >= start}}
             /\ self = [NewTreere EXCEPT !.start = start, !.step = step]
    /\ pc = "json_list"
    /\ json_treelist = << >>
    /\ split = << >>
    /\ count = 0
    /\ not_listoftrees = TRUE
    /\ splices = << >>
    /\ newick_list = << >>
    /\ alg = IdleAlg
    /\ nexus = IdleNexus
    /\ hl = IdleHighlights

\* lines 185-192: one round of the for loop
ParseLine ==
    /\ pc = "json_list"
    /\ jl.i < Len(jl.lines)
    /\ IF Selected(self, jl.i, Len(jl.lines))
       THEN Appended(ParsedTree(recurseBuild(jl.lines[jl.i + 1])))
       ELSE /\ jl' = [jl EXCEPT !.i = @ + 1]
            /\ UNCHANGED <<pc, json_treelist>>
    /\ UNCHANGED <<split, count, self, not_listoftrees, splices, newick_list, alg, nexus, hl>>

\* line 193: return json_treelist
ReturnList ==
    /\ pc = "json_list"
    /\ jl.i >= Len(jl.lines)
    /\ pc' = "parsed"
    /\ UNCHANGED <<json_treelist, split, count, self, not_listoftrees, splices, newick_list, alg, jl, nexus, hl>>

NextDecode == ParseLine \/ ReturnList

SpecDecode == InitDecode /\ [][NextDecode]_vars

(***************************************************************************)
(* _parse_nexus_to_newick_list of tree_processing/core.py: the three       *)
(* regular expressions, each as the search it stands for, on a text that   *)
(* is a sequence of characters.                                            *)
(***************************************************************************)
\* re.IGNORECASE for the letters of the three keywords
Upper(c) ==
    CASE c = "b" -> "B" [] c = "e" -> "E" [] c = "g" -> "G" [] c = "i" -> "I"
      [] c = "n" -> "N" [] c = "t" -> "T" [] c = "r" -> "R" [] c = "s" -> "S"
      [] c = "d" -> "D" [] OTHER -> c

\* the text begins with the keyword, in any case
Keyword(str, word) ==
    Len(str) >= Len(word) /\ \A k \in DOMAIN word : Upper(str[k]) = word[k]

\* \s* at the head of a text: what follows the white space
RECURSIVE SkipSpace(_)
SkipSpace(str) ==
    IF str # << >> /\ Head(str) \in Whitespace THEN SkipSpace(Tail(str)) ELSE str

\* re.sub(r"\[.*?\]", "", ...): a bracket that is closed goes with all up to the first "]"
\* (the first "[" with a "]" behind it is the first "[" of the text, or there is none)
RECURSIVE RemoveComments(_)
RemoveComments(str) ==
    LET open == Find(str, "[")
        close == IF open = -1 THEN -1 ELSE Find(From(str, open), "]")
    IN  IF close = -1 THEN str
        ELSE UpTo(str, open) \o RemoveComments(From(str, open + close + 1))

NoMatch == [matched |-> FALSE, group |-> << >>, rest |-> << >>]
Match(group, rest) == [matched |-> TRUE, group |-> group, rest |-> rest]

\* keyword, \s+ or \s*, and the character c: what follows them in the text
After(str, word, needsSpace, c) ==
    IF ~Keyword(str, word) THEN NoMatch
    ELSE LET behind == From(str, Len(word))
             next == SkipSpace(behind)
         IN  IF (needsSpace /\ next = behind) \/ next = << >> \/ Head(next) # c THEN NoMatch
             ELSE Match(<< >>, Tail(next))

\* BEGIN\s+TREES\s*; at the head of the text
BeginTrees(str) ==
    IF ~Keyword(str, <<"B", "E", "G", "I", "N">>) THEN NoMatch
    ELSE LET behind == From(str, 5)
         IN  IF SkipSpace(behind) = behind THEN NoMatch
             ELSE After(SkipSpace(behind), <<"T", "R", "E", "E", "S">>, FALSE, ";")

\* the places of the text, counted from 0, where END\s*; matches
EndsAt(str) == {k \in 0..(Len(str) - 1) : After(From(str, k), <<"E", "N", "D">>, FALSE, ";").matched}

\* mutant: (.*)END\s*; - the text up to the last END;
UpToLastEnd(str) ==
    IF EndsAt(str) = {} THEN NoMatch
    ELSE LET k == CHOOSE x \in EndsAt(str) : \A y \in EndsAt(str) : y <= x
         IN  Match(UpTo(str, k), After(From(str, k), <<"E", "N", "D">>, FALSE, ";").rest)

\* (.*?)END\s*; - the text up to the first END; and what follows it
UpToEnd(str) ==
    IF EndsAt(str) = {} THEN NoMatch
    ELSE LET k == MinOf(EndsAt(str))
         IN  Match(UpTo(str, k), After(From(str, k), <<"E", "N", "D">>, FALSE, ";").rest)

\* re.search of the TREES block: the first place where the whole expression matches
trees_block_match(str) ==
    LET places == {k \in 0..(Len(str) - 1) :
                      /\ BeginTrees(From(str, k)).matched
                      /\ UpToEnd(BeginTrees(From(str, k)).rest).matched}
    IN  IF places = {} THEN NoMatch ELSE UpToEnd(BeginTrees(From(str, MinOf(places))).rest)

\* =\s*([^;]+); behind the "=": the white space is given back one character when the group
\* would be empty
TreeString(behind) ==
    LET next == SkipSpace(behind)
        semi == Find(next, ";")
    IN  IF semi = -1 THEN NoMatch
        ELSE IF semi > 0 THEN Match(UpTo(next, semi), From(next, semi + 1))
        ELSE IF next = behind THEN NoMatch
        ELSE Match(<<behind[Len(behind) - Len(next)]>>, Tail(next))

\* TREE\s+[^=]*=\s*([^;]+); at the head of the text
tree_pattern(str) ==
    IF ~Keyword(str, <<"T", "R", "E", "E">>) THEN NoMatch
    ELSE LET behind == From(str, 4)
         IN  IF SkipSpace(behind) = behind \/ Find(behind, "=") = -1 THEN NoMatch
             ELSE TreeString(From(behind, Find(behind, "=") + 1))

\* re.findall: the groups of the matches, which do not overlap
RECURSIVE tree_matches(_)
tree_matches(str) ==
    LET places == {k \in 0..(Len(str) - 1) : tree_pattern(From(str, k)).matched}
    IN  IF places = {} THEN << >>
        ELSE LET m == tree_pattern(From(str, MinOf(places)))
             IN  <<m.group>> \o tree_matches(m.rest)

\* re.sub(r"\s+", " ", ...)
RECURSIVE OneSpace(_)
OneSpace(str) ==
    IF str = << >> THEN << >>
    ELSE IF Head(str) \in Whitespace THEN <<" ">> \o OneSpace(SkipSpace(str))
    ELSE <<Head(str)>> \o OneSpace(Tail(str))

\* lines 146-153: the tree string is cleaned, and loses a semicolon at its end
tree_string(tree_match) ==
    LET cleaned == StrStrip(OneSpace(StrStrip(tree_match)))
    IN  IF cleaned # << >> /\ cleaned[Len(cleaned)] = ";" THEN UpTo(cleaned, Len(cleaned) - 1)
        ELSE cleaned

(***************************************************************************)
(* The NEXUS documents: pieces of text written one after the other. A      *)
(* piece is a header, the begin or the end of a block, a tree statement    *)
(* (with the Newick string it states), a comment, or another statement.    *)
(* A document is some pieces, then a TREES block of up to MaxStatements    *)
(* pieces that may lack its begin or its end, then perhaps a second block. *)
(***************************************************************************)
MaxStatements == 2

Piece(kind, text, newick) == [kind |-> kind, text |-> text, newick |-> newick]

Begins ==
    {Piece("begin", <<"B", "E", "G", "I", "N", " ", "T", "R", "E", "E", "S", ";", "\n">>, << >>),
     Piece("begin", <<"b", "e", "g", "i", "n", "\n", " ", "t", "r", "e", "e", "s", " ", ";">>, << >>)}

Ends ==
    {Piece("end", <<"E", "N", "D", ";", "\n">>, << >>),
     Piece("end", <<"e", "n", "d", " ", ";">>, << >>)}

\* tree a = (A,B):  plain; with a rooting comment and a line break; with white space inside
Statements ==
    {Piece("tree", <<"T", "R", "E", "E", " ", "a", "=", "(", "A", ",", "B", ")", ";", "\n">>,
           <<"(", "A", ",", "B", ")">>),
     Piece("tree", <<"t", "r", "e", "e", " ", "*", "b", " ", "=", " ", "[", "&", "R", "]", "\n",
                     "(", "B", ")", ";">>,
           <<"(", "B", ")">>),
     Piece("tree", <<"T", "r", "e", "e", "\n", "c", "=", "(", "A", ",", "\n", " ", "C", ")", " ", ";">>,
           <<"(", "A", ",", " ", "C", ")">>)}

\* a comment that holds keywords, a statement that is no tree, a tree statement without a tree
Others ==
    {Piece("comment", <<"[", "E", "N", "D", ";", "T", "R", "E", "E", " ", "x", "=", "(", "X", ")", ";", "]">>,
           << >>),
     Piece("other", <<"T", "R", "A", "N", "S", "L", "A", "T", "E", " ", "1", " ", "A", ";", "\n">>, << >>),
     Piece("other", <<"T", "R", "E", "E", " ", "e", "=", " ", ";">>, << >>)}

Headers ==
    {Piece("other", <<"#", "N", "E", "X", "U", "S", "\n">>, << >>),
     Piece("other", <<"B", "E", "G", "I", "N", " ", "T", "A", "X", "A", ";">>, << >>)}

\* the piece of a set that is written in capitals
First(pieces) == CHOOSE p \in pieces : p.text[1] \in {"B", "E", "T"} /\ p.text[2] \in {"E", "N", "R"}

Documents ==
    {pre \o b \o body \o e \o post :
        pre \in {<< >>} \cup {<<p>> : p \in Headers} \cup {<<First(Ends)>>, <<First(Statements)>>},
        b \in {<< >>} \cup {<<p>> : p \in Begins},
        body \in UNION {SeqsOver(Statements \cup Others, n) : n \in 0..MaxStatements},
        e \in {<< >>} \cup {<<p>> : p \in Ends},
        post \in {<< >>} \cup {<<First(Begins), s, First(Ends)>> : s \in Statements}}

(***************************************************************************)
(* SpecNexus: _parse_nexus_to_newick_list on a document.                   *)
(***************************************************************************)
InitNexus ==
    /\ nexus \in {[IdleNexus EXCEPT !.pieces = doc,
                                    !.nexus_content = Flatten([k \in DOMAIN doc |-> doc[k].text])] :
                    doc \in Documents}
    /\ pc = "nexus"
    /\ json_treelist = << >>
    /\ split = << >>
    /\ count = 0
    /\ self = NewTreere
    /\ not_listoftrees = TRUE
    /\ splices = << >>
    /\ newick_list = << >>
    /\ alg = IdleAlg
    /\ jl = IdleLines
    /\ hl = IdleHighlights

others == <<json_treelist, split, count, self, not_listoftrees, splices, newick_list, alg, jl, hl>>

\* line 123
Comments ==
    /\ pc = "nexus"
    /\ nexus' = [nexus EXCEPT !.content_no_comments = RemoveComments(nexus.nexus_content)]
    /\ pc' = "search"
    /\ UNCHANGED others

\* lines 126-136, a block was found
Block ==
    /\ pc = "search"
    /\ trees_block_match(nexus.content_no_comments).matched
    /\ nexus' = [nexus EXCEPT !.trees_block = trees_block_match(nexus.content_no_comments).group]
    /\ pc' = "findall"
    /\ UNCHANGED others

\* lines 132-134: no block was found, and the empty list is returned
NoBlock ==
    /\ pc = "search"
    /\ ~trees_block_match(nexus.content_no_comments).matched
    /\ pc' = "nexus_returned"
    /\ UNCHANGED <<nexus, others>>

\* lines 140-141
FindAll ==
    /\ pc = "findall"
    /\ nexus' = [nexus EXCEPT !.tree_matches = tree_matches(nexus.trees_block)]
    /\ pc' = "trees"
    /\ UNCHANGED others

\* lines 144-156: one round of the loop over the matches
CleanTree ==
    /\ pc = "trees"
    /\ nexus.tree_matches # << >>
    /\ nexus' = [nexus EXCEPT !.tree_matches = Tail(@),
                              !.newick_trees =
                                  IF tree_string(Head(nexus.tree_matches)) # << >>
                                  THEN Append(@, tree_string(Head(nexus.tree_matches)))
                                  ELSE @]
    /\ UNCHANGED <<pc, others>>

\* line 159
ReturnTrees ==
    /\ pc = "trees"
    /\ nexus.tree_matches = << >>
    /\ pc' = "nexus_returned"
    /\ UNCHANGED <<nexus, others>>

NextNexus == Comments \/ Block \/ NoBlock \/ FindAll \/ CleanTree \/ ReturnTrees

SpecNexus == InitNexus /\ [][NextNexus]_vars

(***************************************************************************)
(* What can be read off a tree: its leaves, its splits and their lengths.  *)
(* A split is the set of the names of the leaves below a node.             *)
(***************************************************************************)
RECURSIVE Nodes(_)
Nodes(t) == {t} \cup UNION {Nodes(t.children[k]) : k \in DOMAIN t.children}

LeafSetOf(t) == Range(LeafNames(t))
SplitsOf(t) == {LeafSetOf(x) : x \in Nodes(t)}
NodeAt(t, S) == CHOOSE x \in Nodes(t) : LeafSetOf(x) = S
LengthAt(t, S) == FixLength(NodeAt(t, S).length)
InnerSplitsOf(t) == {LeafSetOf(x) : x \in {y \in Nodes(t) : ~IsLeaf(y)}}

\* the positions in the result of the i-th input tree and of the four trees after it (i from 1)
PosOrig(i) == 5 * (i - 1) + 1
Synthesized(i) == {PosOrig(i) + j : j \in 1..4}

Done == pc = "done"
NumInput == Len(json_treelist)
Pairs == 1..(NumInput - 1)
SharedSplits(i) == SplitsOf(json_treelist[i]) \cap SplitsOf(json_treelist[i + 1])
AllSplices == Flatten([k \in DOMAIN splices |-> splices[k].c12 \o splices[k].c34])

(***************************************************************************)
(* algorithm_5 with a fixed order of the s-edges: the list of the first    *)
(* round as merge_sedges gives it, the set of every later round sorted by  *)
(* name. It is what the votes of SpecAlgo are compared with.               *)
(***************************************************************************)
RECURSIVE ByName(_)
ByName(S) ==
    IF S = {} THEN << >>
    ELSE LET x == CHOOSE y \in S : \A z \in S : ~LexLess(z.name, y.name)
         IN  <<x>> \o ByName(S \ {x})

RECURSIVE VotesInOrder(_, _)
VotesInOrder(a, edges) ==
    IF edges = << >> THEN a
    ELSE VotesInOrder(Voted(a, Head(edges),
                            algorithm_5_for_sedge(Head(edges), traverse(a.it1), traverse(a.it2))),
                      Tail(edges))

RECURSIVE RoundsInOrder(_, _, _)
RoundsInOrder(a, edges, newicks) ==
    LET voted == VotesInOrder(a, edges)
        d == delete_tree_leaves_for_coloring_newick(voted.decoded_list, newicks)
        next == NextRound(voted, d)
    IN  IF goes_on(voted.decoded_list, a.sorted_nodes)
        THEN RoundsInOrder(next, ByName(next.pending), d.newick_list)
        ELSE voted.global_decoded_result_list

FirstInOrder(d, input) == RoundsInOrder(FirstRound(d, input), FirstRound(d, input).queue, d.newick_list)

ResultInOrder(input) == FirstInOrder(delete_tree_leaves_for_coloring_newick(<< >>, input), input)

Returned == pc = "returned"
Result == alg.global_decoded_result_list
Input1 == alg.input[1]
Input2 == alg.input[2]
VotesCast == traverse(alg.it1).all_sedges \o traverse(alg.it2).all_sedges

(***************************************************************************)
(* C1. For the pair (A,B,(C,D)); and (A,C,(B,D)); algorithm_5 returns      *)
(* exactly {B, C}: A and D are not in the result.                          *)
(***************************************************************************)
C1_SimpleExchange == (Returned /\ alg.input = SimpleExchange) => Result = {"B", "C"}

(***************************************************************************)
(* C2. For a tree with at least 4 leaves and any lengths >= 0, compared    *)
(* with itself, algorithm_5 returns the empty set.                         *)
(***************************************************************************)
C2_IdentityEmpty == (Returned /\ Input1 = Input2) => Result = {}

\* a tree of MaxLeaves leaves with edges of length 0 below edges of positive length was
\* compared with itself, and s-edges voted
C2_Witness ==
    /\ Returned
    /\ Input1 = Input2
    /\ alg.leaf_count = MaxLeaves
    /\ Len(VotesCast) >= 2

(***************************************************************************)
(* C3. For two trees with the same splits and the same lengths that differ *)
(* only in the order of the children of some nodes, algorithm_5 returns    *)
(* the empty set: the children are put in one order before the trees are   *)
(* compared, so that the two intermediate trees it compares are the same.  *)
(***************************************************************************)
Reordered(a, b) ==
    /\ a # b
    /\ SplitsOf(a) = SplitsOf(b)
    /\ \A S \in SplitsOf(a) : LengthAt(a, S) = LengthAt(b, S)

C3_ReorderEmpty ==
    (Returned /\ Reordered(Input1, Input2)) => (Result = {} /\ alg.it1 = alg.it2)

\* the second tree lists the leaves of the first in another order, inner nodes too are
\* reordered, and s-edges voted
C3_Witness ==
    /\ Returned
    /\ Reordered(Input1, Input2)
    /\ LeafNames(Input1) # LeafNames(Input2)
    /\ alg.leaf_count = MaxLeaves
    /\ Len(VotesCast) >= 2

(***************************************************************************)
(* C4. For a pair with n >= 4 leaves the pruning loop ends after at most   *)
(* n - 3 rounds of votes: a round that is followed by another deletes at   *)
(* least one leaf and leaves at least 4. That the loop ends is stated with *)
(* a variant: a number that is never negative and that every step of the   *)
(* call makes smaller (the rounds that may still come, each weighed with   *)
(* more than the s-edges two trees of n leaves can have, and the votes     *)
(* that are still to be cast in this round).                               *)
(***************************************************************************)
RoundsBounded == pc \in {"round", "returned"} => alg.rounds <= alg.leaf_count - 3

RoundDeletes ==
    (alg.rounds >= 1 /\ alg'.rounds = alg.rounds + 1) =>
        /\ Len(alg'.sorted_nodes) < Len(alg.sorted_nodes)
        /\ Len(alg'.sorted_nodes) >= 4

VotesLeft == Len(alg.queue) + Cardinality(alg.pending)

Variant ==
    IF pc = "round"
    THEN 1 + VotesLeft + (4 * alg.leaf_count + 1) * (alg.leaf_count - 3 - alg.rounds)
    ELSE 0

VariantFalls == pc = "round" => (Variant' < Variant /\ Variant' >= 0)

C4_PruningTerminates == [](RoundsBounded) /\ [][RoundDeletes /\ VariantFalls]_vars

\* a call went through the n - 3 rounds it may take, and n - 3 is more than one
C4_Witness ==
    /\ Returned
    /\ alg.rounds >= 2
    /\ alg.rounds = alg.leaf_count - 3

(***************************************************************************)
(* C5. The set algorithm_5 returns for a pair does not depend on the order *)
(* in which the s-edges of a round are visited: whatever the order, it is  *)
(* the set that the fixed order gives.                                     *)
(***************************************************************************)
C5_OrderIndependent == Returned => Result = ResultInOrder(alg.input)

(***************************************************************************)
(* C6. In each of the four trees synthesized for a pair, every split that  *)
(* occurs in both trees of the pair - leaf, inner node or root - and that  *)
(* the synthesized tree contains has the mean of its two lengths.          *)
(***************************************************************************)
C6_SharedSplitsAveraged ==
    Done =>
        \A i \in Pairs : \A pos \in Synthesized(i) : \A S \in SharedSplits(i) :
            S \in SplitsOf(split[pos]) =>
                LengthAt(split[pos], S)
                    = Mean(LengthAt(json_treelist[i], S), LengthAt(json_treelist[i + 1], S))

(***************************************************************************)
(* C7. Each of the four trees synthesized for a pair has the leaves of the *)
(* source trees, every one exactly once.                                   *)
(***************************************************************************)
C7_LeafSetKept ==
    Done =>
        \A i \in Pairs : \A pos \in Synthesized(i) :
            /\ LeafSetOf(split[pos]) = LeafSetOf(json_treelist[i])
            /\ Len(LeafNames(split[pos])) = Cardinality(LeafSetOf(json_treelist[i]))

\* a pair was synthesized in which inner edges were collapsed and lengths were zeroed
C7_Witness ==
    /\ Done
    /\ \E i \in Pairs :
          /\ splices[i].c12 # << >>
          /\ splices[i].c34 # << >>
          /\ \E x \in Nodes(split[PosOrig(i) + 1]) : ~IsLeaf(x) /\ x.length = 0

(***************************************************************************)
(* C8. Every collapse of an inner edge with k children makes the child     *)
(* list of its parent k - 1 longer: the k children stand where the edge    *)
(* stood, in their order, the children before and after it are untouched,  *)
(* and the walk goes on with the child that followed the edge. No leaf of  *)
(* a collapsed tree is left out by the walk (all are renamed).             *)
(***************************************************************************)
SpliceKeepsChildren(e) ==
    LET k == Len(e.kids)
    IN  /\ Len(e.after) = Len(e.before) + k - 1
        /\ SubSeq(e.after, 1, e.pos - 1) = SubSeq(e.before, 1, e.pos - 1)
        /\ SubSeq(e.after, e.pos, e.pos + k - 1) = e.kids
        /\ SubSeq(e.after, e.pos + k, Len(e.after)) = SubSeq(e.before, e.pos + 1, Len(e.before))
        /\ e.next = e.pos + k

C8_CollapseSplicesChildren ==
    /\ \A k \in DOMAIN AllSplices : SpliceKeepsChildren(AllSplices[k])
    /\ Done => \A i \in Pairs : \A pos \in {PosOrig(i) + 2, PosOrig(i) + 3} :
                  \A nm \in LeafSetOf(split[pos]) : nm.kind = "str"

\* an edge with three children (one collapse spliced some of them in before) was collapsed,
\* and so was an edge that stood between two siblings
C8_Witness ==
    /\ \E k \in DOMAIN AllSplices :
          /\ Len(AllSplices[k].kids) >= 3
          /\ AllSplices[k].pos < Len(AllSplices[k].before)
    /\ \E k \in DOMAIN AllSplices :
          /\ AllSplices[k].pos > 1
          /\ AllSplices[k].pos < Len(AllSplices[k].before)

(***************************************************************************)
(* C9. For n >= 2 input trees the result has 5(n-1)+1 trees. Position 5i   *)
(* (from 0) holds input tree i: its splits with its lengths. The next four *)
(* hold, in this order: T_i's splits with the splits T_{i+1} lacks at      *)
(* length 0 (ramp-down); shared splits only, leaves in T_i's order         *)
(* (collapse-A); shared splits only, leaves in T_{i+1}'s order             *)
(* (collapse-B); T_{i+1}'s splits with the splits T_i lacks at 0 (ramp-up).*)
(***************************************************************************)
IsOriginal(t, input) ==
    /\ SplitsOf(t) = SplitsOf(input)
    /\ \A S \in SplitsOf(input) : NodeAt(t, S).length = LengthAt(input, S)

IsRamp(t, own, other) ==
    /\ SplitsOf(t) = SplitsOf(own)
    /\ \A S \in SplitsOf(own) \ SplitsOf(other) : NodeAt(t, S).length = 0

IsCollapse(t, own, other, ownResult) ==
    /\ SplitsOf(t) \subseteq SplitsOf(own) \cap SplitsOf(other)
    /\ LeafNames(t) = LeafNames(ownResult)

C9_FixedStride ==
    (Done /\ NumInput >= 2) =>
        /\ Len(split) = 5 * (NumInput - 1) + 1
        /\ \A i \in 1..NumInput : IsOriginal(split[PosOrig(i)], json_treelist[i])
        /\ \A i \in Pairs :
              LET a == json_treelist[i]
                  b == json_treelist[i + 1]
              IN  /\ IsRamp(split[PosOrig(i) + 1], a, b)
                  /\ IsCollapse(split[PosOrig(i) + 2], a, b, split[PosOrig(i)])
                  /\ IsCollapse(split[PosOrig(i) + 3], b, a, split[PosOrig(i + 1)])
                  /\ IsRamp(split[PosOrig(i) + 4], b, a)

\* three trees were synthesized, the two pairs differ, and in one pair the two collapsed
\* trees list the leaves in different orders
C9_Witness ==
    /\ Done
    /\ NumInput = 3
    /\ SplitsOf(json_treelist[1]) # SplitsOf(json_treelist[2])
    /\ SplitsOf(json_treelist[2]) # SplitsOf(json_treelist[3])
    /\ \E i \in Pairs : LeafNames(split[PosOrig(i) + 2]) # LeafNames(split[PosOrig(i) + 3])

(***************************************************************************)
(* C10. When the synthesis of one or more trees has finished, every leaf   *)
(* of every tree of the result carries its label; none is an index.        *)
(***************************************************************************)
AllLeavesNamed(t) == \A nm \in LeafSetOf(t) : nm.kind = "str"

C10_LeavesReified == Done => \A k \in DOMAIN split : AllLeavesNamed(split[k])

(***************************************************************************)
(* C11. A malformed line - a bare leaf without parentheses, or a line      *)
(* whose parentheses do not balance - makes the decoder return the empty   *)
(* list of trees, and no exception leaves it.                              *)
(***************************************************************************)
RECURSIVE Balanced(_, _)
Balanced(str, depth) ==
    IF str = << >> THEN depth = 0
    ELSE IF Head(str) = "(" THEN Balanced(Tail(str), depth + 1)
    ELSE IF Head(str) = ")" THEN depth > 0 /\ Balanced(Tail(str), depth - 1)
    ELSE Balanced(Tail(str), depth)

Malformed(str) == Find(str, "(") = -1 \/ ~Balanced(str, 0)

Decoded == pc \in {"parsed", "raised"}

C11_MalformedGivesEmpty ==
    (Decoded /\ Len(jl.lines) = 1 /\ Malformed(jl.lines[1])) =>
        (pc = "parsed" /\ json_treelist = << >>)

(***************************************************************************)
(* C12. The order the instance works with is the order the caller gave     *)
(* exactly when that order and the leaf names read from the first tree are *)
(* equal as sets, and the order read from the first tree otherwise. An     *)
(* order that is not taken is no error: a run ends in an error only where  *)
(* the order read from the first tree would end it too.                    *)
(***************************************************************************)
ParsedOrder == get_nodes(json_treelist[1].children)
OrderChosen == pc \in {"traverse", "done", "raised"}

C12_OrderValidity ==
    OrderChosen =>
        /\ self.sorted_nodes = IF Range(self.given_leaforder) = Range(ParsedOrder)
                                THEN self.given_leaforder ELSE ParsedOrder
        /\ pc = "raised" => jsonTreelist_to_sortedConsensusTreelist(json_treelist).raised # ""

\* an order that misses a leaf was given, and the run ended with the trees of a pair
C12_Witness ==
    /\ Done /\ Len(split) = 6
    /\ self.given_leaforder # << >>
    /\ Range(self.given_leaforder) # Range(ParsedOrder)
    /\ self.sorted_nodes = ParsedOrder

(***************************************************************************)
(* C13. Once the order is chosen, sorted_nodes has as many entries as the  *)
(* first tree has leaves, and holds the name of every leaf of the first    *)
(* tree exactly once.                                                      *)
(***************************************************************************)
FirstLeaves == {x.s : x \in LeafSetOf(json_treelist[1])}

C13_OrderIsBijection ==
    OrderChosen =>
        /\ Len(self.sorted_nodes) = Cardinality(FirstLeaves)
        /\ \A x \in FirstLeaves : countOf(self.sorted_nodes, x) = 1

(***************************************************************************)
(* C14. A later tree whose leaves are not those of the first tree is       *)
(* signalled: no run with such a tree ends as the runs on equal leaf sets  *)
(* end, with the list of trees returned.                                   *)
(***************************************************************************)
C14_LeafSetsChecked ==
    Done => \A k \in DOMAIN json_treelist : LeafSetOf(json_treelist[k]) = LeafSetOf(json_treelist[1])

(***************************************************************************)
(* C15. What algorithm_5 returns is the union of the decoded verdicts of   *)
(* every s-edge of every round, the last round included, each name once.   *)
(***************************************************************************)
VerdictsOf(r) == UNION {Range(alg.verdicts[k].taxa) : k \in {j \in DOMAIN alg.verdicts : alg.verdicts[j].round = r}}
AllVerdicts == UNION {VerdictsOf(r) : r \in 1..alg.rounds}

C15_ResultIsUnion == Returned => Result = AllVerdicts

\* the call took two rounds, and each of them named a leaf the other did not name
C15_Witness ==
    /\ Returned
    /\ alg.rounds = 2
    /\ VerdictsOf(1) \ VerdictsOf(2) # {}
    /\ VerdictsOf(2) \ VerdictsOf(1) # {}

(***************************************************************************)
(* C19. When the s-edges of a round have all voted, the loop goes round    *)
(* again exactly when the result of the round - the union of the verdicts  *)
(* of the round - is not empty and deleting it leaves at least 4 leaves,   *)
(* and then the leaves of that result, and no others, are deleted.         *)
(***************************************************************************)
RoundOver == pc = "round" /\ VotesLeft = 0
RoundResult == VerdictsOf(alg.rounds)

RoundResultDecides ==
    RoundOver =>
        IF RoundResult # {} /\ Len(alg.sorted_nodes) - Cardinality(RoundResult) > 3
        THEN /\ pc' = "round"
             /\ Range(alg'.sorted_nodes) = Range(alg.sorted_nodes) \ RoundResult
        ELSE pc' = "returned"

C19_RoundResultDeleted == [][RoundResultDecides]_vars

(***************************************************************************)
(* C20. In every round the two working trees have the same leaves, these   *)
(* are leaves of the trees given, there are at least 4 of them, and        *)
(* sorted_nodes lists exactly them; a verdict names leaves of its round    *)
(* only, so that no leaf is named after it was deleted.                    *)
(***************************************************************************)
NamesOf(t) == {x.s : x \in LeafSetOf(t)}

RoundLeaves ==
    /\ NamesOf(newick_list[1]) = NamesOf(newick_list[2])
    /\ NamesOf(newick_list[1]) \subseteq NamesOf(Input1)
    /\ Cardinality(NamesOf(newick_list[1])) >= 4
    /\ Range(alg.sorted_nodes) = NamesOf(newick_list[1])
    /\ Len(alg.sorted_nodes) = Cardinality(NamesOf(newick_list[1]))

C20_RoundLeaves ==
    pc \in {"round", "returned"} =>
        /\ RoundLeaves
        /\ VerdictsOf(alg.rounds) \subseteq Range(alg.sorted_nodes)

\* a second round has voted for a leaf, after the first round deleted another
C20_Witness ==
    /\ pc = "round"
    /\ alg.rounds = 2
    /\ VerdictsOf(2) # {}
    /\ Len(alg.sorted_nodes) < alg.leaf_count

(***************************************************************************)
(* C18. json_list with start s and step k returns the trees of the lines   *)
(* at the indices s-1, s-1+k, s-1+2k, ... and of the last line, in the     *)
(* order of the lines, and of no other line. The k-th line of a numbered   *)
(* text is known by its root, whose length has k digits.                   *)
(***************************************************************************)
LineOf(tree) == Len(tree.length.str) - 1

ParsedLines == [j \in DOMAIN json_treelist |-> LineOf(json_treelist[j])]

IntervalLines(s, k, n) ==
    {i \in 0..(n - 1) : i >= s - 1 /\ ((i - (s - 1)) % k = 0 \/ i = n - 1)}

C18_StartAndStep ==
    (pc = "parsed" /\ jl.lines \in Numbered) =>
        ParsedLines = RisingList(IntervalLines(self.start, self.step, Len(jl.lines)))

(***************************************************************************)
(* C17. _parse_nexus_to_newick_list returns the Newick strings of the tree *)
(* statements between the first BEGIN TREES; and the END; that follows it, *)
(* one for each statement and in the order of the document, without the    *)
(* comments and without the semicolon; a document without a TREES block    *)
(* gives the empty list.                                                   *)
(***************************************************************************)
KindsAt(k) == nexus.pieces[k].kind

\* the pieces of the first TREES block: behind the first begin, before the next end
FirstBlock ==
    IF \E b, e \in DOMAIN nexus.pieces : b < e /\ KindsAt(b) = "begin" /\ KindsAt(e) = "end"
    THEN LET b == CHOOSE b \in DOMAIN nexus.pieces :
                     /\ KindsAt(b) = "begin"
                     /\ \A j \in 1..(b - 1) : KindsAt(j) # "begin"
             e == CHOOSE e \in DOMAIN nexus.pieces :
                     /\ e > b /\ KindsAt(e) = "end"
                     /\ \A j \in (b + 1)..(e - 1) : KindsAt(j) # "end"
         IN  SubSeq(nexus.pieces, b + 1, e - 1)
    ELSE << >>

RECURSIVE Stated(_)
Stated(pieces) ==
    IF pieces = << >> THEN << >>
    ELSE (IF Head(pieces).kind = "tree" THEN <<Head(pieces).newick>> ELSE << >>)
         \o Stated(Tail(pieces))

NexusReturned == pc = "nexus_returned"

C17_NexusTrees == NexusReturned => nexus.newick_trees = Stated(FirstBlock)

\* the first of two blocks was read: it has a comment that holds keywords and a tree over
\* several lines, and the second block states another tree
C17_Witness ==
    /\ NexusReturned
    /\ nexus.newick_trees = <<(<<"(", "A", ",", " ", "C", ")">>)>>
    /\ Cardinality({k \in DOMAIN nexus.pieces : KindsAt(k) = "begin"}) = 2
    /\ \E k \in DOMAIN FirstBlock : FirstBlock[k].kind = "comment"
    /\ Stated(nexus.pieces) # Stated(FirstBlock)

(***************************************************************************)
(* C16. Processing a pair of neighbours shares no mutable state with       *)
(* processing another pair: in whatever order the pairs of a list are      *)
(* processed, no call fails, and the four trees collected for pair i are   *)
(* the four trees the run over the whole list in sequence has between the  *)
(* input trees i and i + 1.                                                *)
(***************************************************************************)
\* the four trees the run in sequence synthesizes for pair i
InSequence(i) ==
    SubSeq(jsonTreelist_to_sortedConsensusTreelist(json_treelist).split,
           PosOrig(i) + 1, PosOrig(i) + 4)

C16_PairsIndependent ==
    /\ pc # "raised"
    /\ \A i \in DOMAIN split :
          split[i] # << >> => Len(split[i]) = 6 /\ SubSeq(split[i], 2, 5) = InSequence(i)

(***************************************************************************)
(* C21. Whatever the branch lengths (>= 0): an inner edge of T_i is kept   *)
(* in Collapse-A exactly if its split occurs in T_{i+1}, an inner edge of  *)
(* T_{i+1} is kept in Collapse-B exactly if its split occurs in T_i; both  *)
(* collapsed trees hold the same splits, those shared by the two trees.    *)
(***************************************************************************)
SharedInnerSplits(i) == InnerSplitsOf(json_treelist[i]) \cap InnerSplitsOf(json_treelist[i + 1])

C21_CollapseKeepsShared ==
    Done =>
        \A i \in Pairs :
            /\ InnerSplitsOf(split[PosOrig(i) + 2]) = SharedInnerSplits(i)
            /\ InnerSplitsOf(split[PosOrig(i) + 3]) = SharedInnerSplits(i)

(***************************************************************************)
(* C22. get_type gives every node of the two trees of a round exactly one  *)
(* of leaf, full, partial, anti, none, and it is the one of the rule: leaf *)
(* without children; full with own length > 0 and every child at 0;        *)
(* partial with own length > 0 and some, not all, children at 0; anti with *)
(* own length 0 and every child > 0; none in every other case.             *)
(***************************************************************************)
EdgeTypes == {"leaf", "full", "partial", "anti", "none"}

TypeRule(type_, node) ==
    LET kids == {node.children[k].length : k \in DOMAIN node.children}
        leaf == node.children = << >>
        full == ~leaf /\ node.length > 0 /\ kids = {0}
        partial == ~leaf /\ node.length > 0 /\ 0 \in kids /\ kids # {0}
        anti == ~leaf /\ node.length = 0 /\ \A l \in kids : l > 0
    IN  CASE type_ = "leaf" -> leaf
          [] type_ = "full" -> full
          [] type_ = "partial" -> partial
          [] type_ = "anti" -> anti
          [] type_ = "none" -> ~(leaf \/ full \/ partial \/ anti)

TypedByRule(tree) ==
    \A node \in Nodes(tree) :
        /\ get_type(node) \in EdgeTypes
        /\ \A type_ \in EdgeTypes : TypeRule(type_, node) <=> type_ = get_type(node)

C22_TypeByRule == pc = "round" => TypedByRule(alg.it1) /\ TypedByRule(alg.it2)

\* a round is under way on trees in which all five types occur, and a node that is none
\* although its own length is positive
C22_Witness ==
    /\ pc = "round"
    /\ \A type_ \in EdgeTypes :
          \E node \in Nodes(alg.it1) \cup Nodes(alg.it2) : get_type(node) = type_
    /\ \E node \in Nodes(alg.it1) \cup Nodes(alg.it2) :
          get_type(node) = "none" /\ node.length > 0

(***************************************************************************)
(* C23. Every edge that is put to the vote is full or partial in one of    *)
(* the two trees of the round and stands in the edge-type map and the arm  *)
(* map of the other with one of the types full, partial, none: one of the  *)
(* cases of algorithm_5_for_sedge takes it, "We forgot one case" is never  *)
(* raised and no key is missed.                                            *)
(***************************************************************************)
\* the edges that wait for their vote in the round under way
Candidates == Range(alg.queue) \cup alg.pending

\* the type of an edge in a tree, "missing" where a map of the tree does not hold it
TypeIn(t, sedge) ==
    IF sedge.name \in DOMAIN t.edge_types /\ sedge.name \in DOMAIN t.arms
    THEN t.edge_types[sedge.name]
    ELSE "missing"

Dispatch(sedge, t1, t2) == <<TypeIn(t1, sedge), TypeIn(t2, sedge)>>

Dispatched ==
    ({"full", "partial"} \X {"full", "partial", "none"})
        \cup ({"full", "partial", "none"} \X {"full", "partial"})

C23_EveryCandidateDispatched ==
    /\ alg.at # "algorithm_5_for_sedge"
    /\ pc = "round" =>
          LET t1 == traverse(alg.it1)
              t2 == traverse(alg.it2)
          IN  \A sedge \in Candidates :
                  /\ Dispatch(sedge, t1, t2) \in Dispatched
                  /\ algorithm_5_for_sedge(sedge, t1, t2) # WeForgotOneCase

\* in trees of five leaves an edge that is none in the first tree and full in the second
\* waits for its vote: the last of the cases takes it
C23_Witness ==
    /\ pc = "round"
    /\ Len(alg.sorted_nodes) = 5
    /\ \E sedge \in Candidates :
          Dispatch(sedge, traverse(alg.it1), traverse(alg.it2)) = <<"none", "full">>

(***************************************************************************)
(* C24. An edge that goes to the cartesian vote (full/full, full/partial,  *)
(* full/none, in either order of the trees) gets as its verdict the union  *)
(* of the candidate sets that (a) occur most often in the pool of the      *)
(* intersections and the symmetric differences of all pairs of arms and    *)
(* (b) are the smallest among those of (a); every tie of (a) and of (b) is *)
(* kept.                                                                   *)
(***************************************************************************)
Cartesian == {<<"full", "full">>, <<"full", "partial">>, <<"partial", "full">>,
              <<"full", "none">>, <<"none", "full">>}

\* the pairs of arms: an arm of the first list and an arm of the second, as sets
ArmPairs(c1, c2) == {<<Range(c1[i]), Range(c2[j]), i, j>> : i \in DOMAIN c1, j \in DOMAIN c2}

Intersection(p) == p[1] \cap p[2]
SymmetricDifference(p) == (p[1] \ p[2]) \cup (p[2] \ p[1])

\* how often a set occurs in the pool of a set of pairs
Occurrences(pairs, X) ==
    Cardinality({p \in pairs : Intersection(p) = X})
        + Cardinality({p \in pairs : SymmetricDifference(p) = X})

CandidateSets(pairs) ==
    {Intersection(p) : p \in pairs} \cup {SymmetricDifference(p) : p \in pairs}

MostFrequent(pairs, sets) ==
    {X \in sets : \A Y \in sets : Occurrences(pairs, Y) <= Occurrences(pairs, X)}

Smallest(sets) == {X \in sets : \A Y \in sets : Cardinality(X) <= Cardinality(Y)}

\* the sets that win the cartesian vote of an edge
Winners(sedge, t1, t2) ==
    LET pairs == ArmPairs(t1.arms[sedge.name], t2.arms[sedge.name])
    IN  Smallest(MostFrequent(pairs, CandidateSets(pairs)))

\* the most frequent sets of the vote, whatever their size
Frequent(sedge, t1, t2) ==
    LET pairs == ArmPairs(t1.arms[sedge.name], t2.arms[sedge.name])
    IN  MostFrequent(pairs, CandidateSets(pairs))

C24_CartesianVote ==
    pc = "round" =>
        LET t1 == traverse(alg.it1)
            t2 == traverse(alg.it2)
        IN  \A sedge \in Candidates :
                Dispatch(sedge, t1, t2) \in Cartesian =>
                    Range(algorithm_5_for_sedge(sedge, t1, t2)) = UNION Winners(sedge, t1, t2)

\* an edge waits for a cartesian vote in whose pool some set is less frequent than others
\* and which two sets win in a tie: the verdict is the union of the two
C24_Witness ==
    /\ pc = "round"
    /\ LET t1 == traverse(alg.it1)
           t2 == traverse(alg.it2)
       IN  \E sedge \in Candidates :
               /\ Dispatch(sedge, t1, t2) \in Cartesian
               /\ Cardinality(Winners(sedge, t1, t2)) >= 2
               /\ UNION Winners(sedge, t1, t2) # {}
               /\ CandidateSets(ArmPairs(t1.arms[sedge.name], t2.arms[sedge.name]))
                      # Frequent(sedge, t1, t2)

(***************************************************************************)
(* C25. In the vote of a partial/partial edge only those components of its *)
(* arms take part whose owning edge is partial in one tree and anti in the *)
(* other; an arm that keeps none of its components is dropped. Of the sets *)
(* that win the vote, each with more than one element loses its last       *)
(* element before the union, each with one element is kept whole.          *)
(***************************************************************************)
\* the type of the edge that owns a component in a tree
OwnerType(t, component) == t.edge_types[t.ancestor_edges[NameKey(component)].name]

TakesPart(t1, t2, component) ==
    \/ OwnerType(t1, component) = "partial" /\ OwnerType(t2, component) = "anti"
    \/ OwnerType(t1, component) = "anti" /\ OwnerType(t2, component) = "partial"

\* the pairs of arms of a partial/partial edge, each arm cut down to the components that
\* take part
FilteredPairs(sedge, t1, t2) ==
    LET c1 == t1.arms[sedge.name]
        c2 == t2.arms[sedge.name]
        kept(arm) == {component \in Range(arm) : TakesPart(t1, t2, component)}
    IN  {<<kept(c1[i]), kept(c2[j]), i, j>> :
            i \in {k \in DOMAIN c1 : kept(c1[k]) # {}}, j \in {k \in DOMAIN c2 : kept(c2[k]) # {}}}

\* the sets that win the vote of a partial/partial edge: the empty set is no candidate
FilteredWinners(sedge, t1, t2) ==
    LET pairs == FilteredPairs(sedge, t1, t2)
    IN  Smallest(MostFrequent(pairs, CandidateSets(pairs) \ {{}}))

\* a set of components without the last of them, if it has more than one
WithoutLast(X) ==
    IF Cardinality(X) > 1 THEN X \ {CHOOSE last \in X : \A other \in X \ {last} : LexLess(other, last)}
    ELSE X

C25_PartialPartialVote ==
    pc = "round" =>
        LET t1 == traverse(alg.it1)
            t2 == traverse(alg.it2)
        IN  \A sedge \in Candidates :
                Dispatch(sedge, t1, t2) = <<"partial", "partial">> =>
                    Range(algorithm_5_for_sedge(sedge, t1, t2))
                        = UNION {WithoutLast(X) : X \in FilteredWinners(sedge, t1, t2)}

\* a partial/partial edge waits for its vote: one of its arms keeps none of its components,
\* and a set of more than one element wins
C25_Witness ==
    /\ pc = "round"
    /\ LET t1 == traverse(alg.it1)
           t2 == traverse(alg.it2)
       IN  \E sedge \in Candidates :
               /\ Dispatch(sedge, t1, t2) = <<"partial", "partial">>
               /\ \E k \in DOMAIN t1.arms[sedge.name] :
                     \A component \in Range(t1.arms[sedge.name][k]) :
                         ~TakesPart(t1, t2, component)
               /\ \E X \in FilteredWinners(sedge, t1, t2) : Cardinality(X) > 1

(***************************************************************************)
(* C26. In the vote of a partial/none edge the components of the arms of   *)
(* the partial side are parted into those owned by a partial edge and      *)
(* those owned by an anti edge; the arms of the former are merged into one *)
(* combined set; the verdict is made of the smallest among the combined    *)
(* set and the arms of the latter, all that tie, each without its last     *)
(* element if it has more than one.                                        *)
(***************************************************************************)
\* the components of an arm whose owner in t is of the type, in the order of the arm
OwnedBy(t, arm, type_) ==
    LET Owned(component) == OwnerType(t, component) = type_
    IN  SelectSeq(arm, Owned)

\* the arms of the edge in t, merged, as far as partial edges own them
CombinedSet(sedge, t) ==
    LET c == t.arms[sedge.name]
        merged[k \in 0..Len(c)] ==
            IF k = 0 THEN << >> ELSE merged[k - 1] \o OwnedBy(t, c[k], "partial")
    IN  merged[Len(c)]

\* the arms of the edge in t as far as anti edges own them, without those that are empty
AntiArms(sedge, t) ==
    LET c == t.arms[sedge.name]
    IN  {OwnedBy(t, c[k], "anti") : k \in DOMAIN c} \ {<< >>}

Shortest(lists) == {x \in lists : \A y \in lists : Len(x) <= Len(y)}

ButLast(x) == IF Len(x) > 1 THEN SubSeq(x, 1, Len(x) - 1) ELSE x

\* the verdict of a partial/none edge that is partial in t
PartialNoneVerdict(sedge, t) ==
    UNION {Range(ButLast(x)) : x \in Shortest({CombinedSet(sedge, t)} \cup AntiArms(sedge, t))}

C26_PartialNoneVote ==
    pc = "round" =>
        LET t1 == traverse(alg.it1)
            t2 == traverse(alg.it2)
        IN  \A sedge \in Candidates :
                /\ Dispatch(sedge, t1, t2) = <<"partial", "none">> =>
                      Range(algorithm_5_for_sedge(sedge, t1, t2)) = PartialNoneVerdict(sedge, t1)
                /\ Dispatch(sedge, t1, t2) = <<"none", "partial">> =>
                      Range(algorithm_5_for_sedge(sedge, t1, t2)) = PartialNoneVerdict(sedge, t2)

\* a partial/none edge waits for its vote: the combined set and an arm owned by an anti
\* edge tie as the smallest, with more than one element each, and both lose their last
C26_Witness ==
    /\ pc = "round"
    /\ LET t1 == traverse(alg.it1)
           t2 == traverse(alg.it2)
       IN  \E sedge \in Candidates :
               /\ Dispatch(sedge, t1, t2) = <<"partial", "none">>
               /\ Len(CombinedSet(sedge, t1)) > 1
               /\ \E x \in AntiArms(sedge, t1) :
                     /\ x # CombinedSet(sedge, t1)
                     /\ {x, CombinedSet(sedge, t1)}
                            \subseteq Shortest({CombinedSet(sedge, t1)} \cup AntiArms(sedge, t1))
               /\ PartialNoneVerdict(sedge, t1) # {}

(***************************************************************************)
(* C27. While traverse builds the FunctionalTree of a tree, no merge       *)
(* overwrites an entry: every name in the edge-type map and in the arm map *)
(* and every key of the ancestor map comes from exactly one node of the    *)
(* tree, and every s-edge is listed exactly once.                          *)
(***************************************************************************)
\* the nodes of a tree with the paths that lead to them: one entry for every node
RECURSIVE NodesAt(_, _)
NodesAt(node, path) ==
    {<<path, node>>} \cup UNION {NodesAt(node.children[k], Append(path, k)) : k \in DOMAIN node.children}

\* the keys that traverse writes into the ancestor map for a node
AncestorKeys(node) ==
    {NameKey(node.children[k].name) : k \in DOMAIN node.children}
        \cup {ArmKey(calculate_component_set_tree(node.children[k])) : k \in DOMAIN node.children}

NoOverwrite(tree) ==
    LET t == traverse(tree)
        at == NodesAt(tree, << >>)
    IN  /\ \A p \in at : \A q \in at :
              p # q => /\ p[2].name # q[2].name
                       /\ AncestorKeys(p[2]) \cap AncestorKeys(q[2]) = {}
        /\ Cardinality(DOMAIN t.edge_types) = Cardinality(at)
        /\ Cardinality(DOMAIN t.arms) = Cardinality(at)
        /\ \A p \in at : /\ t.edge_types[p[2].name] = get_type(p[2])
                         /\ \A key \in AncestorKeys(p[2]) : t.ancestor_edges[key] = p[2]
        /\ \A i \in DOMAIN t.all_sedges : \A j \in DOMAIN t.all_sedges :
              t.all_sedges[i].name = t.all_sedges[j].name => i = j
        /\ {t.all_sedges[i] : i \in DOMAIN t.all_sedges}
              = {p[2] : p \in {q \in at : get_type(q[2]) \in {"full", "partial"}}}

C27_NoOverwrite == pc = "round" => NoOverwrite(alg.it1) /\ NoOverwrite(alg.it2)

(***************************************************************************)
(* C28. A vote that finds no owning edge for a component in the ancestor   *)
(* map of one of the two trees does not end the run: the call for the pair *)
(* ends with an empty (or flagged) result, no set is computed from a wrong *)
(* owner, and the pairs after it are still computed.                       *)
(***************************************************************************)
C28_MissEndsPairOnly ==
    (alg.exc = "KeyError" /\ alg.at = "algorithm_5_for_sedge") =>
        /\ pc # "raised"
        /\ alg.global_decoded_result_list = {}

(***************************************************************************)
(* C29. algorithm_5 is symmetric in its two trees: the set it returns for  *)
(* a pair (T1, T2) over the same leaves is the set it returns for the pair *)
(* (T2, T1).                                                               *)
(***************************************************************************)
Reversed(input) == <<input[2], input[1]>>

C29_Symmetric == Returned => Result = ResultInOrder(Reversed(alg.input))

(***************************************************************************)
(* C30. Synthesizing the four trees of a pair changes neither source       *)
(* tree's set of splits nor any of its branch lengths: lengths are changed *)
(* and edges are removed in copies only. In every state of the run, before *)
(* and after each pair, the tree that stands for input tree i has the      *)
(* splits and the lengths of the parsed input (a missing length read as    *)
(* 1), whether its leaves are index-encoded or named; at the end it is at  *)
(* position 5(i-1) of the result (from 0).                                 *)
(***************************************************************************)
\* the trees tree_traversal has been through, and where input tree i is in split now
Traversed == IF count = 0 THEN 0 ELSE (count - 1) \div 5 + 1
PosNow(i) ==
    IF Traversed = 0 THEN i
    ELSE IF i <= Traversed THEN PosOrig(i)
    ELSE PosOrig(Traversed) + (i - Traversed)

\* a tree with every index-encoded leaf under its label, and every missing length read as 1
RECURSIVE Plain(_, _)
Plain(tr, t) ==
    MkNode(IF t.name.kind = "int" THEN Reify(tr, t.name) ELSE t.name,
           FixLength(t.length),
           [k \in DOMAIN t.children |-> Plain(tr, t.children[k])])

SameSplitsAndLengths(t, input) ==
    /\ SplitsOf(t) = SplitsOf(input)
    /\ \A S \in SplitsOf(input) : LengthAt(t, S) = LengthAt(input, S)

C30_SourcesUntouched ==
    NumInput >= 2 =>
        \A i \in 1..NumInput :
            SameSplitsAndLengths(Plain(self, split[PosNow(i)]), json_treelist[i])

\* three trees went through: a copy lost an edge, a copy has a length of 0 where the
\* source has a positive one, and the children of a source tree were reordered
C30_Witness ==
    /\ Done
    /\ NumInput = 3
    /\ AllSplices # << >>
    /\ \E i \in Pairs :
          /\ \E S \in SplitsOf(json_treelist[i]) \ SplitsOf(json_treelist[i + 1]) :
                /\ LengthAt(json_treelist[i], S) > 0
                /\ NodeAt(split[PosOrig(i) + 1], S).length = 0
          /\ LeafNames(split[PosOrig(i)]) # LeafNames(json_treelist[i])

====
